---- MODULE Spec2Model ----
(***************************************************************************)
(* ai-context: the context indexing and incremental synchronisation core.  *)
(*                                                                         *)
(* Paths are sequences of one-character strings, exactly the characters    *)
(* of str(rel_path); file contents are sequences of tokens, each token a   *)
(* run of bytes of a known kind and length, so that sizes, the position of *)
(* a NUL byte, line splitting and the rendering of context.txt are         *)
(* computed from the content instead of being assumed.                     *)
(***************************************************************************)
EXTENDS Integers, Sequences, FiniteSets, TLC

VARIABLES
    fs,          \* the user files of the working tree: rel path -> file state
    markerDir,   \* .ai-context exists
    pidFile,     \* the file .ai-context/.watchdog.pid
    aiIgnore,    \* the file .ai-context/.ai-ignore
    dbExists,    \* .ai-context/context.db exists (with its files table)
    files,       \* the rows of table files, in rowid order
    summaryRow,  \* the row id = 1 of table project_summary
    contextTxt,  \* the file .ai-context/context.txt
    watcher,     \* the ContextUpdater of the running watch session
    queue,       \* notifications delivered to the observer, not yet handled
    changes,     \* number of external changes made so far
    synced,      \* history: the session started on a matching table and no read failed
    chat,        \* the Chat object: its history and token_size
    sessions,    \* the process ids of the watch sessions of the lifecycle view
    indexing,    \* a run of index() in progress: its rules, the rest of its walk, its indexed_files
    last         \* history: the last operation and what it did

vars == <<fs, markerDir, indexing, chat, sessions, pidFile, aiIgnore, dbExists, files, summaryRow, contextTxt,
          watcher, queue, changes, synced, last>>

-----------------------------------------------------------------------------
(* Bounds of the model *)

\* the largest number of definitions in a generated Python module
MaxDefs == 25

\* the largest number of messages in a chat history
MaxHistory == 3

\* the largest token_size of a Chat, and the largest number of tokens of a
\* message's text
MaxTokenSize == 8
MaxTextTokens == 2

\* the largest number of watch sessions running at a time
MaxSessions == 2

\* the number of changes the user makes to the tree and to .ai-ignore; it also
\* bounds the notifications waiting in the queue
MaxChanges == 1

-----------------------------------------------------------------------------
(* Characters and paths *)

Range(s) == {s[i] : i \in 1..Len(s)}

Min(a, b) == IF a < b THEN a ELSE b

\* ord() of the characters that occur in the model's paths
Ord(c) ==
    CASE c = "-" -> 45 [] c = "." -> 46 [] c = "/" -> 47
      [] c = "a" -> 97 [] c = "b" -> 98 [] c = "c" -> 99 [] c = "d" -> 100
      [] c = "e" -> 101 [] c = "i" -> 105 [] c = "m" -> 109 [] c = "n" -> 110
      [] c = "o" -> 111 [] c = "p" -> 112 [] c = "t" -> 116 [] c = "w" -> 119
      [] c = "x" -> 120 [] c = "y" -> 121

StartsWith(s, pre) == Len(s) >= Len(pre) /\ SubSeq(s, 1, Len(pre)) = pre

EndsWith(s, suf) ==
    Len(s) >= Len(suf) /\ SubSeq(s, Len(s) - Len(suf) + 1, Len(s)) = suf

\* settings.py: AI_CONTEXT_DIR, CONTEXT_FILE as path strings; os.sep
Sep == <<"/">>
AI_CONTEXT_DIR == <<".", "a", "i", "-", "c", "o", "n", "t", "e", "x", "t">>
CONTEXT_FILE == AI_CONTEXT_DIR \o Sep \o <<"c", "o", "n", "t", "e", "x", "t", ".", "t", "x", "t">>
CONTEXT_DB == AI_CONTEXT_DIR \o Sep \o <<"c", "o", "n", "t", "e", "x", "t", ".", "d", "b">>

\* Path.cwd(), and the absolute form of a relative path
Cwd == <<"/", "w">>
Abs(rel) == Cwd \o Sep \o rel

\* the user paths the model tracks: "a.py" and "a/b.c" ("a.py" sorts first: "." < "/")
P_a_py == <<"a", ".", "p", "y">>
P_a_b_c == <<"a", "/", "b", ".", "c">>
UserPaths == {P_a_py, P_a_b_c}
\* a file outside the working tree
OutsidePath == <<"/", "o", "/", "x">>
\* everything rglob("*") can visit in the model
TreePaths == UserPaths \cup {CONTEXT_FILE}
AbsPaths == {Abs(r) : r \in TreePaths} \cup {OutsidePath}

\* path.relative_to(Path.cwd()): the relative path, or ValueError
ValueError == <<"!">>
RelativeTo(path) ==
    IF StartsWith(path, Cwd \o Sep) /\ Len(path) > Len(Cwd) + 1
    THEN SubSeq(path, Len(Cwd) + 2, Len(path))
    ELSE IF path = Cwd THEN <<".">> ELSE ValueError

\* byte-wise string comparison (SQLite BINARY collation of ORDER BY filepath)
PathLess(p, q) ==
    \E i \in 1..(Min(Len(p), Len(q)) + 1) :
        /\ SubSeq(p, 1, i - 1) = SubSeq(q, 1, i - 1)
        /\ \/ i > Len(p) /\ i <= Len(q)
           \/ i <= Len(p) /\ i <= Len(q) /\ Ord(p[i]) < Ord(q[i])

\* the components of a relative path
RECURSIVE SplitPath(_, _, _)
SplitPath(p, i, cur) ==
    IF i > Len(p) THEN <<cur>>
    ELSE IF p[i] = "/" THEN <<cur>> \o SplitPath(p, i + 1, <<>>)
         ELSE SplitPath(p, i + 1, Append(cur, p[i]))

Components(p) == SplitPath(p, 1, <<>>)

-----------------------------------------------------------------------------
(* File contents: sequences of byte-run tokens *)

\* k: kind of run, s: its text, p: a path it embeds, n: its length in bytes,
\* v: a number it prints
Tok(k, s, n) == [k |-> k, s |-> s, p |-> <<>>, n |-> n, v |-> 0]
PathTok(k, path, n, v) == [k |-> k, s |-> "", p |-> path, n |-> n, v |-> v]
NL == Tok("nl", "", 1)
CRLF == Tok("crlf", "", 2)
NUL == Tok("nul", "", 1)
BadByte == Tok("bad", "", 1)
Replacement == Tok("rep", "", 3)
Blank == Tok("sp", "", 2)
Pad(n) == Tok("pad", "", n)
DefLine(name) == Tok("def", name, 12)
ClassLine(name) == Tok("class", name, 14)
\* "class C:" opening an indented body, and "    def m(self): pass" in a body
ClassHead(name) == Tok("class_head", name, 8)
MethodLine(name) == Tok("method", name, 22)
\* "    class Inner:" in a class body, and "        def m(self): pass" in the
\* body of that nested class
InnerHead(name) == Tok("inner_head", name, 16)
InnerMethod(name) == Tok("inner_method", name, 26)
Text(s) == Tok("txt", s, 5)

RECURSIVE SumBytes(_)
SumBytes(data) == IF data = <<>> THEN 0 ELSE Head(data).n + SumBytes(Tail(data))

\* f.read(count): the first count bytes
RECURSIVE ReadBytes(_, _)
ReadBytes(data, count) ==
    IF data = <<>> \/ count <= 0 THEN <<>>
    ELSE IF Head(data).n <= count
         THEN <<Head(data)>> \o ReadBytes(Tail(data), count - Head(data).n)
         ELSE <<[Head(data) EXCEPT !.n = count]>>

\* read_text(encoding="utf-8", errors="replace"): invalid bytes become U+FFFD,
\* and universal newlines turn \r\n into \n
RECURSIVE Decode(_)
Decode(data) ==
    IF data = <<>> THEN <<>>
    ELSE LET t == Head(data)
             d == IF t.k = "bad" THEN Replacement
                  ELSE IF t.k = "crlf" THEN NL ELSE t
         IN <<d>> \o Decode(Tail(data))

NoFile == [kind |-> "none", data |-> <<>>, readable |-> FALSE]
Directory == [kind |-> "dir", data |-> <<>>, readable |-> TRUE]
RegularFile(data) == [kind |-> "file", data |-> data, readable |-> TRUE]
Unreadable(data) == [kind |-> "file", data |-> data, readable |-> FALSE]

D_py == <<DefLine("f"), NL, ClassLine("C"), NL>>
D_txt == <<Blank, CRLF, Text("hello"), NL>>
D_max == <<Pad(999999), NL>>
D_over == <<Pad(1000000), NL>>
D_nul_in == <<Pad(1023), NUL, Text("tail")>>
D_nul_out == <<Pad(1024), NUL, NL>>
D_bad == <<BadByte, Text("caf"), NL>>

\* every shape of file the eligibility rules tell apart
FileShapes ==
    {NoFile, Directory, Unreadable(D_txt)}
        \cup {RegularFile(d) : d \in {D_py, D_txt, D_max, D_over, D_nul_in, D_nul_out, D_bad}}

\* the states the user may put each path in
FileStates(p) ==
    IF p = P_a_py
    THEN {NoFile, RegularFile(D_py), RegularFile(D_over)}
    ELSE {NoFile, Directory, RegularFile(D_txt), RegularFile(D_bad)}

-----------------------------------------------------------------------------
(* The ignore rules: .ai-ignore lines and the gitwildmatch matcher *)

Line(kind, neg, arg) == [kind |-> kind, neg |-> neg, arg |-> arg]
\* "# Add file/folder patterns to ignore (like .gitignore)"
HeaderLine == Line("comment", FALSE, <<>>)
BlankLine == Line("blank", FALSE, <<>>)
\* "*.<ext>", "<name>/" and their "!" negations
ExtPattern(ext) == Line("ext", FALSE, ext)
DirPattern(name) == Line("dir", FALSE, name)
Negated(l) == [l EXCEPT !.neg = TRUE]

NoIgnoreFile == [present |-> FALSE, lines |-> <<>>]
IgnoreFile(lines) == [present |-> TRUE, lines |-> lines]

\* the contents the user may give .ai-ignore
IgnoreFiles ==
    { IgnoreFile(<<HeaderLine>>),
      IgnoreFile(<<DirPattern(AI_CONTEXT_DIR), BlankLine, ExtPattern(<<"t", "x", "t">>)>>),
      IgnoreFile(<<DirPattern(<<"a">>), Negated(DirPattern(<<"a">>)),
                   ExtPattern(<<"p", "y">>)>>) }

\* one pattern against a relative path: "*.ext" matches a component of any depth
\* ending in .ext; "name/" matches a directory component called name
ComponentsMatch(pat, comps) ==
    CASE pat.kind = "ext" ->
            \E i \in 1..Len(comps) : EndsWith(comps[i], <<".">> \o pat.arg)
      [] pat.kind = "dir" ->
            \E i \in 1..(Len(comps) - 1) : comps[i] = pat.arg
      [] OTHER -> FALSE

PatternMatches(pat, rel) == ComponentsMatch(pat, Components(rel))

\* PathSpec.match_file: the last pattern that matches decides, a negated one
\* re-including the path
RECURSIVE MatchFrom(_, _, _)
MatchFrom(patterns, rel, sofar) ==
    IF patterns = <<>> THEN sofar
    ELSE MatchFrom(Tail(patterns), rel,
                   IF PatternMatches(Head(patterns), rel)
                   THEN ~Head(patterns).neg ELSE sofar)

match_file(ai_ignore, rel) == MatchFrom(ai_ignore, rel, FALSE)

\* index.py load_ai_ignore: the PathSpec it returns
IsRuleLine(l) == l.kind # "blank" /\ l.kind # "comment"
LoadedRules(ignoreFile) ==
    IF ignoreFile.present THEN SelectSeq(ignoreFile.lines, IsRuleLine) ELSE <<>>

\* a load_ai_ignore that does not create the missing file
IgnoreFileAfterLoad_not_creating(ignoreFile) == ignoreFile

\* index.py load_ai_ignore: the .ai-ignore file it leaves behind
IgnoreFileAfterLoad(ignoreFile) ==
    IF ignoreFile.present THEN ignoreFile ELSE IgnoreFile(<<HeaderLine>>)

-----------------------------------------------------------------------------
(* Eligibility *)

ChunkSize == 1024
MaxFileSize == 1000000

\* the file at an absolute path, in filesystem state f with mirror file ctx
FileAt(path, f, ctx) ==
    IF path = OutsidePath THEN RegularFile(D_txt)
    ELSE IF path = Abs(CONTEXT_FILE)
         THEN (IF ctx.present THEN RegularFile(ctx.data) ELSE NoFile)
         ELSE IF RelativeTo(path) \in DOMAIN f THEN f[RelativeTo(path)] ELSE NoFile

\* index.py is_binary: a NUL byte in the first 1024 bytes; any failure is "binary"
\* b'\0' in chunk
ContainsNul(chunk) == \E i \in 1..Len(chunk) : chunk[i].k = "nul"

is_binary(file) ==
    IF ~file.readable THEN TRUE
    ELSE ContainsNul(ReadBytes(file.data, ChunkSize))

\* should_index with the size test written >= instead of >
should_index_size_ge(path, ai_ignore, f, ctx) ==
    LET file == FileAt(path, f, ctx)
        rel_path == RelativeTo(path)
    IN IF file.kind # "file" THEN FALSE
       ELSE IF rel_path = ValueError THEN FALSE
       ELSE IF match_file(ai_ignore, rel_path) THEN FALSE
       ELSE IF is_binary(file) THEN FALSE
       ELSE IF SumBytes(file.data) >= MaxFileSize THEN FALSE
       ELSE TRUE

\* index.py should_index
should_index(path, ai_ignore, f, ctx) ==
    LET file == FileAt(path, f, ctx)
        rel_path == RelativeTo(path)
    IN IF file.kind # "file" THEN FALSE
       ELSE IF rel_path = ValueError THEN FALSE
       ELSE IF match_file(ai_ignore, rel_path) THEN FALSE
       ELSE IF is_binary(file) THEN FALSE
       ELSE IF SumBytes(file.data) > MaxFileSize THEN FALSE
       ELSE TRUE

\* the points of a call of should_index at which another process may delete
\* the file: before path.is_file() of line 35, before the open() of is_binary,
\* before path.stat() of line 45, or not during the call
DeletePoints == {"never", "before_is_file", "before_open", "before_stat"}

\* index.py should_index, lines 35-47, on a file that is deleted at point: what
\* the call returns, or "raises" for the FileNotFoundError of path.stat(), which
\* no handler in should_index catches
should_index_while(path, ai_ignore, f, ctx, point) ==
    LET file == FileAt(path, f, ctx)
        rel_path == RelativeTo(path)
    IN IF point = "before_is_file" \/ file.kind # "file" THEN "false"
       ELSE IF rel_path = ValueError THEN "false"
       ELSE IF match_file(ai_ignore, rel_path) THEN "false"
       ELSE IF point = "before_open" \/ is_binary(file) THEN "false"
       ELSE IF point = "before_stat" THEN "raises"
       ELSE IF SumBytes(file.data) > MaxFileSize THEN "false"
       ELSE "true"

-----------------------------------------------------------------------------
(* The files table and its ordered scan *)

Row(filepath, content) == [filepath |-> filepath, content |-> content]

\* an INSERT into a table whose filepath is not a key
InsertOrReplace_append(rows, filepath, content) == rows \o <<Row(filepath, content)>>

\* INSERT OR REPLACE INTO files (filepath, content) VALUES (?, ?): the row with
\* that primary key is deleted and the new row gets a fresh rowid
InsertOrReplace(rows, filepath, content) ==
    LET Other(r) == r.filepath # filepath
    IN SelectSeq(rows, Other) \o <<Row(filepath, content)>>

\* DELETE FROM files WHERE filepath = ?
DeleteRow(rows, filepath) ==
    LET Other(r) == r.filepath # filepath
    IN SelectSeq(rows, Other)

\* ORDER BY filepath, as an insertion sort on the byte order of the key
RECURSIVE InsertSorted(_, _)
InsertSorted(sorted, r) ==
    IF sorted = <<>> THEN <<r>>
    ELSE IF PathLess(r.filepath, Head(sorted).filepath)
         THEN <<r>> \o sorted
         ELSE <<Head(sorted)>> \o InsertSorted(Tail(sorted), r)

RECURSIVE OrderByFilepath(_)
OrderByFilepath(rows) ==
    IF rows = <<>> THEN <<>>
    ELSE InsertSorted(OrderByFilepath(Tail(rows)), Head(rows))

\* a SELECT without ORDER BY: the rows in rowid order
scan_unordered(rows) == rows

\* SELECT filepath, content FROM files ORDER BY filepath
scan_ordered(rows) == OrderByFilepath(rows)

-----------------------------------------------------------------------------
(* The consumers' renderings *)

SepWidth == 60
RuleWidth == 80

HeaderTok(filepath) == PathTok("hdr", filepath, 14 + Len(filepath), 0)
SeparatorTok == Tok("sep", "", SepWidth)

\* "### FILE: {filepath} ###\n", content, "\n" + "=" * 60 + "\n"
Block(r) == <<HeaderTok(r.filepath), NL>> \o r.content \o <<NL, SeparatorTok, NL>>

RECURSIVE Blocks(_)
Blocks(rows) == IF rows = <<>> THEN <<>> ELSE Block(Head(rows)) \o Blocks(Tail(rows))

\* watchdog.py ContextUpdater.export_context_to_file: the text it writes
WatcherExport(rows) == Blocks(scan_ordered(rows))

\* read_context.py export_context_to_file: "" for an empty table, else the blocks
ReadExport(rows) ==
    LET ordered == scan_ordered(rows)
    IN IF ordered = <<>> THEN <<>> ELSE Blocks(ordered)

\* chat.py Chat.load_context_from_db: the parts joined by "\n"
RECURSIVE ChatParts(_)
ChatParts(rows) ==
    IF rows = <<>> THEN <<>>
    ELSE LET r == Head(rows)
             part == <<HeaderTok(r.filepath), NL>> \o r.content \o <<NL, SeparatorTok>>
         IN IF Len(rows) = 1 THEN part ELSE part \o <<NL>> \o ChatParts(Tail(rows))

load_context_from_db(rows) == ChatParts(scan_ordered(rows))

\* one character of a LIKE pattern against one character of the value ("_"
\* matches any character; the model's paths have no upper-case letters to fold)
LikeChar(pc, c) == pc = "_" \/ pc = c

\* filepath LIKE '%/' || name
LikeTail(filepath, name) ==
    /\ Len(filepath) >= Len(name) + 1
    /\ filepath[Len(filepath) - Len(name)] = "/"
    /\ \A i \in 1..Len(name) : LikeChar(name[i], filepath[Len(filepath) - Len(name) + i])

DashWidth == 60
DashTok == Tok("dash", "", DashWidth)

\* "### FILE: {filepath} ###\n{content}\n" + "-" * 60, joined by "\n"
RECURSIVE MentionedParts(_)
MentionedParts(rows) ==
    IF rows = <<>> THEN <<>>
    ELSE LET r == Head(rows)
             part == <<HeaderTok(r.filepath), NL>> \o r.content \o <<NL, DashTok>>
         IN IF Len(rows) = 1 THEN part ELSE part \o <<NL>> \o MentionedParts(Tail(rows))

\* chat.py Chat._fetch_file_contexts_by_names: SELECT ... WHERE filepath LIKE ?
\* OR ..., with no ORDER BY: a scan of the table in rowid order
fetch_file_contexts_by_names(rows, filenames) ==
    LET Mentioned(r) == \E name \in filenames : LikeTail(r.filepath, name)
    IN MentionedParts(SelectSeq(rows, Mentioned))

\* names that Chat._extract_filenames_from_text finds in a message
MentionedNames == {<<"a", ".", "p", "y">>, <<"b", ".", "c">>,
                   <<"c", "o", "n", "t", "e", "x", "t", ".", "t", "x", "t">>}

-----------------------------------------------------------------------------
(* The summary generator (compress.py) *)

SigCap == 20
ExcerptLen == 100

\* str.splitlines on decoded text: the runs between line breaks
RECURSIVE SplitLines(_, _)
SplitLines(text, cur) ==
    IF text = <<>> THEN (IF cur = <<>> THEN <<>> ELSE <<cur>>)
    ELSE IF Head(text).k = "nl"
         THEN <<cur>> \o SplitLines(Tail(text), <<>>)
         ELSE SplitLines(Tail(text), Append(cur, Head(text)))

splitlines(text) == SplitLines(text, <<>>)

IsSpace(t) == t.k = "sp" \/ t.k = "nl"

\* str.strip: leading and trailing whitespace removed
RECURSIVE LStrip(_)
LStrip(text) ==
    IF text # <<>> /\ IsSpace(Head(text)) THEN LStrip(Tail(text)) ELSE text

RECURSIVE RStrip(_)
RStrip(text) ==
    IF text # <<>> /\ IsSpace(text[Len(text)])
    THEN RStrip(SubSeq(text, 1, Len(text) - 1)) ELSE text

strip(text) == RStrip(LStrip(text))

CharLen(t) == IF t.k = "rep" THEN 1 ELSE t.n

\* text[:count], in characters
RECURSIVE TakeChars(_, _)
TakeChars(text, count) ==
    IF text = <<>> \/ count <= 0 THEN <<>>
    ELSE IF CharLen(Head(text)) <= count
         THEN <<Head(text)>> \o TakeChars(Tail(text), count - CharLen(Head(text)))
         ELSE <<[Head(text) EXCEPT !.n = count]>>

\* Path(filepath).suffix: the last component's part from its last dot on
RECURSIVE LastDot(_, _)
LastDot(name, i) == IF i = 0 \/ name[i] = "." THEN i ELSE LastDot(name, i - 1)

NameSuffix(name, i) ==
    IF i > 1 /\ i < Len(name) THEN SubSeq(name, i, Len(name)) ELSE <<>>

LastOf(seq) == seq[Len(seq)]

Suffix(filepath) ==
    CHOOSE suffix \in {NameSuffix(name, LastDot(name, Len(name))) :
                          name \in {LastOf(Components(filepath))}} : TRUE

\* what ast.parse makes of one source line
LineIsBlank(line) == \A i \in 1..Len(line) : line[i].k = "sp"
LineIsStatement(line) ==
    Len(line) = 1
        /\ line[1].k \in {"def", "class", "class_head", "method", "inner_head",
                          "inner_method", "txt", "pad", "hdr"}
LineParses(line) == LineIsBlank(line) \/ LineIsStatement(line)

HasNul(text) == ContainsNul(text)

SyntaxSentinel == Tok("syntax_error", "", 0)
NoDefinitions == Tok("no_definitions", "", 0)
\* the signature of a definition; v tells definitions of one name apart
Signature(t) ==
    [Tok(IF t.k \in {"def", "method", "inner_method"} THEN "sig_def" ELSE "sig_class",
         t.s, 0)
        EXCEPT !.v = t.v]

\* _visit over the lines from a point on; cls holds the names of the classes
\* whose bodies the lines continue, outermost first, and is empty at module
\* level. Line 52 names a class without a prefix, and line 56 passes the name
\* of the class itself, f"{node.name}.", as the prefix of the definitions in
\* its body
RECURSIVE VisitFrom(_, _)
VisitFrom(lines, cls) ==
    IF lines = <<>> THEN <<>>
    ELSE LET line == Head(lines)
         IN IF LineIsBlank(line) THEN VisitFrom(Tail(lines), cls)
            ELSE CASE line[1].k \in {"def", "class"} ->
                         <<Signature(line[1])>> \o VisitFrom(Tail(lines), <<>>)
                   [] line[1].k = "class_head" ->
                         <<Signature(line[1])>> \o VisitFrom(Tail(lines), <<line[1].s>>)
                   [] line[1].k = "method" ->
                         <<[Signature(line[1]) EXCEPT !.p = <<cls[1]>>]>>
                             \o VisitFrom(Tail(lines), <<cls[1]>>)
                   [] line[1].k = "inner_head" ->
                         <<Signature(line[1])>>
                             \o VisitFrom(Tail(lines), <<cls[1], line[1].s>>)
                   [] line[1].k = "inner_method" ->
                         <<[Signature(line[1]) EXCEPT !.p = <<cls[2]>>]>>
                             \o VisitFrom(Tail(lines), cls)
                   [] OTHER -> VisitFrom(Tail(lines), <<>>)

\* the signatures of the module body's definitions, in source order
VisitBody(lines) == VisitFrom(lines, <<>>)

\* ast.parse(content) raises SyntaxError: a line is no statement, an indented
\* line does not continue the body it belongs to, or the body of a class is
\* missing; before and after are the kinds of the nearest lines that are not
\* blank
ParseFails(lines) ==
    \E i \in 1..Len(lines) :
        \/ ~LineParses(lines[i])
        \/ /\ ~LineIsBlank(lines[i])
           /\ \A prev \in {{j \in 1..(i - 1) : ~LineIsBlank(lines[j])}} :
              \A next \in {{j \in (i + 1)..Len(lines) : ~LineIsBlank(lines[j])}} :
              \A before \in {IF prev = {} THEN "none"
                             ELSE lines[CHOOSE j \in prev : \A m \in prev : m <= j][1].k} :
              \A after \in {IF next = {} THEN "none"
                            ELSE lines[CHOOSE j \in next : \A m \in next : m >= j][1].k} :
                 \/ /\ lines[i][1].k = "method"
                    /\ before \notin {"class_head", "method", "inner_method"}
                 \/ /\ lines[i][1].k = "inner_head"
                    /\ \/ before \notin {"class_head", "method", "inner_method"}
                       \/ after # "inner_method"
                 \/ /\ lines[i][1].k = "inner_method"
                    /\ before \notin {"inner_head", "inner_method"}
                 \/ /\ lines[i][1].k = "class_head"
                    /\ after \notin {"method", "inner_head"}

OrPlaceholder(signatures) ==
    IF signatures # <<>> THEN signatures ELSE <<NoDefinitions>>

SignaturesOfLines(lines) ==
    IF ParseFails(lines) THEN <<SyntaxSentinel>> ELSE OrPlaceholder(VisitBody(lines))

\* compress.py extract_python_signatures (content without a NUL character)
extract_python_signatures(content) == SignaturesOfLines(splitlines(content))

\* "\n".join("  * " + s for s in sigs)
RECURSIVE JoinLines(_)
JoinLines(items) ==
    IF items = <<>> THEN <<>>
    ELSE IF Len(items) = 1 THEN Head(items)
         ELSE Head(items) \o <<NL>> \o JoinLines(Tail(items))

Bullet == Tok("bullet", "", 4)
Unsupported == Tok("unsupported", "", 0)
Dots == Tok("dots", "", 3)

RECURSIVE Bulleted(_)
Bulleted(sigs) ==
    IF sigs = <<>> THEN <<>> ELSE <<(<<Bullet, Head(sigs)>>)>> \o Bulleted(Tail(sigs))

\* the lines of the content that are not blank, stripped
RECURSIVE NonBlankStripped(_)
NonBlankStripped(lines) ==
    IF lines = <<>> THEN <<>>
    ELSE (IF strip(Head(lines)) # <<>> THEN <<strip(Head(lines))>> ELSE <<>>)
             \o NonBlankStripped(Tail(lines))

\* a summary of all the signatures, without the cap
SignatureSummary_uncapped(sigs) == JoinLines(Bulleted(sigs))

\* compress.py generate_file_summary (content that ast.parse accepts or rejects
\* with SyntaxError)
\* sigs[:20], bulleted and joined
SignatureSummary(sigs) ==
    JoinLines(Bulleted(SubSeq(sigs, 1, Min(Len(sigs), SigCap))))

\* the placeholder and, when a line is not blank, lines[0][:100] + "..."
ExcerptSummary(lines) ==
    <<Unsupported>> \o
        (IF lines # <<>>
         THEN <<NL, Bullet>> \o TakeChars(lines[1], ExcerptLen) \o <<Dots>>
         ELSE <<>>)

generate_file_summary(filepath, content) ==
    <<PathTok("file_header", filepath, 0, Len(splitlines(content))), NL>>
        \o (IF Suffix(filepath) = <<".", "p", "y">>
            THEN SignatureSummary(extract_python_signatures(content))
            ELSE ExcerptSummary(NonBlankStripped(splitlines(content))))
        \o <<NL>>

\* ast.parse raises ValueError on source with a NUL character (Python before
\* 3.12) and SyntaxError from 3.12 on: nulRaises tells which interpreter runs
SummaryRaises(filepath, content, nulRaises) ==
    nulRaises /\ HasNul(content) /\ Suffix(filepath) = <<".", "p", "y">>

ErrorMarker(filepath) == <<PathTok("analysis_error", filepath, 0, 0)>>

\* compress.py extract_summaries_from_db: one entry per row, in path order
RECURSIVE SummariesOf(_, _)
SummariesOf(rows, nulRaises) ==
    IF rows = <<>> THEN <<>>
    ELSE LET r == Head(rows)
             summary ==
                 IF SummaryRaises(r.filepath, r.content, nulRaises)
                 THEN ErrorMarker(r.filepath)
                 ELSE strip(generate_file_summary(r.filepath, r.content))
         IN <<summary>> \o SummariesOf(Tail(rows), nulRaises)

\* a summary generation that covers the Python files only
extract_summaries_python_only(rows, nulRaises) ==
    SummariesOf(SelectSeq(scan_ordered(rows),
                          LAMBDA r : Suffix(r.filepath) = <<".", "p", "y">>), nulRaises)

\* a summary generation that leaves out the records whose summary raises
extract_summaries_skipping_failed(rows, nulRaises) ==
    SummariesOf(SelectSeq(scan_ordered(rows),
                          LAMBDA r : ~SummaryRaises(r.filepath, r.content, nulRaises)),
                nulRaises)

extract_summaries_from_db(rows, nulRaises) == SummariesOf(scan_ordered(rows), nulRaises)

\* index.py update_summary_cache: the summary_text it stores
SummaryHeader == <<Tok("title", "", 0), NL, Tok("rule", "", RuleWidth), NL>>
full_summary(rows, nulRaises) ==
    SummaryHeader \o JoinLines(extract_summaries_from_db(rows, nulRaises)) \o <<NL>>

-----------------------------------------------------------------------------
(* State *)

Event(event_type, src_path, is_directory) ==
    [event_type |-> event_type, src_path |-> src_path, is_directory |-> is_directory]

NoSummary == [present |-> FALSE, text |-> <<>>]
NoContextTxt == [present |-> FALSE, data |-> <<>>]
NoWatcher == [running |-> FALSE, ai_ignore |-> <<>>, pid |-> 0]
NoPidFile == [present |-> FALSE, text |-> <<>>]

\* no run of index() is in progress
NoIndexing == [active |-> FALSE, ai_ignore |-> <<>>, todo |-> <<>>, indexed_files |-> <<>>]

\* no Chat object was constructed
NoChat == [token_size |-> 0, history |-> <<>>]

\* os.getpid() of the watcher process
WatcherPid == 4711

\* str(pid) and int(text): a process id and its decimal digits
Digits == <<"0", "1", "2", "3", "4", "5", "6", "7", "8", "9">>

RECURSIVE StrOfPid(_)
StrOfPid(n) ==
    IF n < 10 THEN <<Digits[n + 1]>>
    ELSE StrOfPid(n \div 10) \o <<Digits[(n % 10) + 1]>>

RECURSIVE IntOfText(_)
IntOfText(text) ==
    IF text = <<>> THEN 0
    ELSE 10 * IntOfText(SubSeq(text, 1, Len(text) - 1))
           + (CHOOSE d \in 0..9 : Digits[d + 1] = text[Len(text)])

\* op: the operation, branch: the path it took through the code, had: an
\* event's path had a row before it was handled, or index found rows of paths it
\* did not write
Did(op, branch, had) ==
    [op |-> op, branch |-> branch, had |-> had, path |-> <<>>, out |-> <<>>]

\* an operation that returned, or wrote to its output path, the value out
Returned(op, out) ==
    [op |-> op, branch |-> "done", had |-> FALSE, path |-> <<>>, out |-> out]

\* a call of should_index on path and what it returned
Probed(path, result) ==
    [op |-> "should_index", branch |-> IF result THEN "true" ELSE "false",
     had |-> FALSE, path |-> path, out |-> <<>>]

RowPaths(rows) == {rows[i].filepath : i \in 1..Len(rows)}

\* the working tree the tool is first run in: a.py and a/b.c, both text
SampleTree ==
    [p \in UserPaths |-> IF p = P_a_py THEN RegularFile(D_py) ELSE RegularFile(D_txt)]

HasRow(rows, filepath) == \E i \in 1..Len(rows) : rows[i].filepath = filepath

\* the table agrees with the tree on every path outside .ai-context
TableMatches(rows, f, ai_ignore, ctx) ==
    \A P \in UserPaths :
        /\ HasRow(rows, P) <=> should_index(Abs(P), ai_ignore, f, ctx)
        /\ \A i \in 1..Len(rows) :
               rows[i].filepath = P => rows[i].content = Decode(f[P].data)

Init ==
    /\ fs = SampleTree
    /\ markerDir \in BOOLEAN
    /\ pidFile = NoPidFile
    /\ aiIgnore = NoIgnoreFile
    /\ dbExists = FALSE
    /\ files = <<>>
    /\ summaryRow = NoSummary
    /\ contextTxt = NoContextTxt
    /\ watcher = NoWatcher
    /\ queue = <<>>
    /\ changes = 0
    /\ synced = FALSE
    /\ chat = NoChat
    /\ sessions = {}
    /\ indexing = NoIndexing
    /\ last = Did("init", "", FALSE)

-----------------------------------------------------------------------------
(* The environment: the user changes the working tree, the observer notifies *)

\* the notification the observer delivers for a change of one path
Notification(p, old, new) ==
    Event(IF old.kind = "none" THEN "created"
          ELSE IF new.kind = "none" THEN "deleted" ELSE "modified",
          Abs(p),
          IF new.kind = "none" THEN old.kind = "dir" ELSE new.kind = "dir")

\* a file or directory is created, a file is rewritten (a rewrite with the
\* same bytes is noticed by a running observer only), a path is deleted
FsChange(p, new) ==
    /\ changes < MaxChanges
    /\ new # fs[p] \/ (fs[p].kind = "file" /\ watcher.running)
    /\ fs[p].kind = "none" \/ new.kind = "none"
          \/ (fs[p].kind = "file" /\ new.kind = "file")
    /\ fs' = [fs EXCEPT ![p] = new]
    /\ queue' = IF watcher.running
                THEN Append(queue, Notification(p, fs[p], new)) ELSE queue
    /\ changes' = changes + 1
    /\ last' = Did("change", "", FALSE)
    /\ UNCHANGED <<markerDir, indexing, chat, sessions, pidFile, aiIgnore, dbExists, files, summaryRow, contextTxt,
                   watcher, synced>>

\* the user rewrites .ai-context/.ai-ignore
EditIgnore(new) ==
    /\ changes < MaxChanges
    /\ markerDir
    /\ new # aiIgnore
    /\ aiIgnore' = new
    /\ changes' = changes + 1
    /\ synced' = FALSE
    /\ last' = Did("edit_ignore", "", FALSE)
    /\ UNCHANGED <<fs, markerDir, indexing, chat, sessions, pidFile, dbExists, files, summaryRow, contextTxt,
                   watcher, queue>>

-----------------------------------------------------------------------------
(* The full index builder (index.py) *)

\* Path.cwd().rglob("*"): the tree's paths in the order the directory listing
\* gives them, which is not the sorted order
rglob == <<P_a_b_c, P_a_py, CONTEXT_FILE>>

\* a walk that ends at the first path it does not keep
RECURSIVE Walked_stopping(_, _)
Walked_stopping(walk, keep) ==
    IF walk = <<>> \/ Head(walk) \notin keep THEN <<>>
    ELSE <<Head(walk)>> \o Walked_stopping(Tail(walk), keep)

\* the subsequence of the walk made of the paths in keep
RECURSIVE Walked(_, _)
Walked(walk, keep) ==
    IF walk = <<>> THEN <<>>
    ELSE (IF Head(walk) \in keep THEN <<Head(walk)>> ELSE <<>>) \o Walked(Tail(walk), keep)

\* INSERT OR REPLACE of each pair in turn
RECURSIVE UpsertAll(_, _)
UpsertAll(rows, pairs) ==
    IF pairs = <<>> THEN rows
    ELSE UpsertAll(InsertOrReplace(rows, Head(pairs)[1], Head(pairs)[2]), Tail(pairs))

\* a write_to_sqlite that empties the table before it inserts
write_to_sqlite_clearing(rows, indexed_files) == UpsertAll(<<>>, indexed_files)

\* index.py write_to_sqlite: executemany of INSERT OR REPLACE over indexed_files
write_to_sqlite(rows, indexed_files) == UpsertAll(rows, indexed_files)

\* index.py index, lines 117-124: the (rel_path, content) pairs accumulated for
\* the paths in order, the eligible paths whose read succeeded
RECURSIVE IndexedFiles(_, _, _)
IndexedFiles(order, f, ctx) ==
    IF order = <<>> THEN <<>>
    ELSE <<(<<Head(order), Decode(FileAt(Abs(Head(order)), f, ctx).data)>>)>>
             \o IndexedFiles(Tail(order), f, ctx)

\* index.py update_summary_cache: the row it stores
update_summary_cache(rows, nulRaises) ==
    [present |-> TRUE, text |-> full_summary(rows, nulRaises)]

\* the paths the walk finds eligible
Eligible(ai_ignore, f, ctx) ==
    {r \in TreePaths : should_index(Abs(r), ai_ignore, f, ctx)}

\* index.py index, lines 113-127: the rules are loaded, every eligible path of
\* the walk is read (failed are the paths whose read raised, named in the
\* warnings of line 124), the pairs are written and the summary is cached;
\* noted: the history keeps the paths named in the warnings
IndexRun(noted) ==
    \E eligible \in {Eligible(LoadedRules(aiIgnore), fs, contextTxt)} :
    \E failed \in SUBSET eligible :
    \E order \in {Walked(rglob, eligible \ failed)} :
       /\ aiIgnore' = IgnoreFileAfterLoad(aiIgnore)
       /\ dbExists' = TRUE
       /\ files' = write_to_sqlite(files, IndexedFiles(order, fs, contextTxt))
       /\ \E nulRaises \in BOOLEAN :
              /\ nulRaises \/ \E i \in 1..Len(files') :
                     SummaryRaises(files'[i].filepath, files'[i].content, TRUE)
              /\ summaryRow' = update_summary_cache(files', nulRaises)
       /\ last' = [Did("index", "done", RowPaths(files) \ Range(order) # {})
                      EXCEPT !.out = IF noted THEN Walked(rglob, failed) ELSE <<>>]
       /\ UNCHANGED <<fs, markerDir, indexing, chat, sessions, pidFile, contextTxt, watcher, queue,
                      changes, synced>>

\* index.py index, lines 113-127
BuildIndex == IndexRun(FALSE)

\* an index() without the test of lines 109-111
index_unchecked == BuildIndex

\* index.py index: the test of the marker directory, then the build
index ==
    IF ~markerDir
    THEN /\ last' = Did("index", "exit", FALSE)
         /\ UNCHANGED <<fs, markerDir, indexing, chat, sessions, pidFile, aiIgnore, dbExists, files,
                        summaryRow, contextTxt, watcher, queue, changes, synced>>
    ELSE BuildIndex

-----------------------------------------------------------------------------
(* The incremental synchronizer (watchdog.py) *)

\* a start_observer that records its process id before it looks for the store
start_observer_pid_first ==
    /\ ~watcher.running
    /\ pidFile' = [present |-> TRUE, text |-> StrOfPid(WatcherPid)]
    /\ IF ~markerDir \/ ~dbExists
       THEN /\ last' = Did("start", "exit", FALSE)
            /\ UNCHANGED <<aiIgnore, watcher, queue, synced>>
       ELSE /\ watcher' = [running |-> TRUE, ai_ignore |-> LoadedRules(aiIgnore),
                           pid |-> WatcherPid]
            /\ aiIgnore' = IgnoreFileAfterLoad(aiIgnore)
            /\ queue' = <<>>
            /\ synced' = TableMatches(files, fs, LoadedRules(aiIgnore), contextTxt)
            /\ last' = Did("start", "running", FALSE)
    /\ UNCHANGED <<fs, markerDir, indexing, chat, sessions, dbExists, files, summaryRow, contextTxt, changes>>

\* watchdog.py start_observer, lines 132-148, with ContextUpdater.__init__: the
\* two tests, the pid marker, the ignore rules, the subscription
start_observer ==
    /\ ~watcher.running
    /\ IF ~markerDir \/ ~dbExists
       THEN /\ last' = Did("start", "exit", FALSE)
            /\ UNCHANGED <<pidFile, aiIgnore, watcher, queue, synced>>
       ELSE /\ pidFile' = [present |-> TRUE, text |-> StrOfPid(WatcherPid)]
            /\ watcher' = [running |-> TRUE, ai_ignore |-> LoadedRules(aiIgnore),
                           pid |-> WatcherPid]
            /\ aiIgnore' = IgnoreFileAfterLoad(aiIgnore)
            /\ queue' = <<>>
            /\ synced' = TableMatches(files, fs, LoadedRules(aiIgnore), contextTxt)
            /\ last' = Did("start", "running", FALSE)
    /\ UNCHANGED <<fs, markerDir, indexing, chat, sessions, dbExists, files, summaryRow, contextTxt, changes>>

\* a session that leaves its pid marker behind when it is interrupted
stop_observer_keeping_pid ==
    /\ watcher.running
    /\ watcher' = NoWatcher
    /\ queue' = <<>>
    /\ synced' = FALSE
    /\ last' = Did("stop", "", FALSE)
    /\ UNCHANGED <<fs, markerDir, indexing, chat, sessions, pidFile, aiIgnore, dbExists, files, summaryRow,
                   contextTxt, changes>>

\* watchdog.py start_observer, lines 156-163: KeyboardInterrupt in the main
\* thread, then observer.stop(), observer.join() (the handler call in progress
\* returns first, the notifications still queued are dropped) and the unlink of
\* the pid marker
stop_observer ==
    /\ watcher.running
    /\ watcher' = NoWatcher
    /\ pidFile' = NoPidFile
    /\ queue' = <<>>
    /\ synced' = FALSE
    /\ last' = Did("stop", "", FALSE)
    /\ UNCHANGED <<fs, markerDir, indexing, chat, sessions, aiIgnore, dbExists, files, summaryRow, contextTxt,
                   changes>>

\* a handler without the test of lines 70-71
EventFilter_without_marker_test(event) ==
    LET rel_path_str == RelativeTo(event.src_path)
    IN IF event.is_directory THEN "skip_directory"
       ELSE IF event.event_type \notin {"created", "modified", "deleted"} THEN "skip_kind"
       ELSE IF rel_path_str = ValueError THEN "skip_outside"
       ELSE "process"

\* a handler without the test of lines 59-60
EventFilter_without_kind_test(event) ==
    LET rel_path_str == RelativeTo(event.src_path)
    IN IF event.is_directory THEN "skip_directory"
       ELSE IF rel_path_str = ValueError THEN "skip_outside"
       ELSE IF StartsWith(rel_path_str, AI_CONTEXT_DIR \o Sep) \/ rel_path_str = AI_CONTEXT_DIR
            THEN "skip_ai_context"
       ELSE "process"

\* watchdog.py on_any_event, lines 56-71: which filter drops the event, if any
EventFilter(event) ==
    LET rel_path_str == RelativeTo(event.src_path)
    IN IF event.is_directory THEN "skip_directory"
       ELSE IF event.event_type \notin {"created", "modified", "deleted"} THEN "skip_kind"
       ELSE IF rel_path_str = ValueError THEN "skip_outside"
       ELSE IF StartsWith(rel_path_str, AI_CONTEXT_DIR \o Sep) \/ rel_path_str = AI_CONTEXT_DIR
            THEN "skip_ai_context"
       ELSE "process"

\* a handler that loads the rules of .ai-ignore anew for every notification
EventBranch_reloading(event, ai_ignore, f, ctx, readOK) ==
    IF event.event_type = "deleted" THEN "deleted"
    ELSE IF should_index(event.src_path, LoadedRules(aiIgnore), f, ctx)
         THEN (IF readOK THEN "updated" ELSE "read_error")
         ELSE "excluded"

\* watchdog.py on_any_event, lines 79-95: the branch a processed event takes
EventBranch(event, ai_ignore, f, ctx, readOK) ==
    IF event.event_type = "deleted" THEN "deleted"
    ELSE IF should_index(event.src_path, ai_ignore, f, ctx)
         THEN (IF readOK THEN "updated" ELSE "read_error")
         ELSE "excluded"

\* a handler that does not store the content of an eligible file
EventStore_no_update(rows, event, branch, f, ctx) ==
    IF branch \in {"deleted", "excluded"}
    THEN DeleteRow(rows, RelativeTo(event.src_path)) ELSE rows

\* a handler that leaves the record of a file that stopped being eligible
EventStore_keeps_excluded(rows, event, branch, f, ctx) ==
    CASE branch = "deleted" -> DeleteRow(rows, RelativeTo(event.src_path))
      [] branch = "updated" ->
             InsertOrReplace(rows, RelativeTo(event.src_path),
                             Decode(FileAt(event.src_path, f, ctx).data))
      [] OTHER -> rows

\* a handler that does nothing on a 'deleted' event
EventStore_ignores_deleted(rows, event, branch, f, ctx) ==
    CASE branch = "excluded" -> DeleteRow(rows, RelativeTo(event.src_path))
      [] branch = "updated" ->
             InsertOrReplace(rows, RelativeTo(event.src_path),
                             Decode(FileAt(event.src_path, f, ctx).data))
      [] OTHER -> rows

\* a handler that deletes the record of a file it could not read
EventStore_forgets_unread(rows, event, branch, f, ctx) ==
    CASE branch = "updated" ->
             InsertOrReplace(rows, RelativeTo(event.src_path),
                             Decode(FileAt(event.src_path, f, ctx).data))
      [] OTHER -> DeleteRow(rows, RelativeTo(event.src_path))

\* watchdog.py on_any_event, lines 79-97: the files table after the commit
EventStore(rows, event, branch, f, ctx) ==
    LET rel_path_str == RelativeTo(event.src_path)
    IN CASE branch = "deleted" -> DeleteRow(rows, rel_path_str)
         [] branch = "excluded" -> DeleteRow(rows, rel_path_str)
         [] branch = "updated" ->
                InsertOrReplace(rows, rel_path_str,
                                Decode(FileAt(event.src_path, f, ctx).data))
         [] OTHER -> rows

\* the notification the observer delivers for the watcher's own write of context.txt
SelfNotification == Event("modified", Abs(CONTEXT_FILE), FALSE)

\* a handler that returns from the except block, before the export
EventEffects_no_export_on_error ==
    LET event == Head(queue)
    IN IF EventFilter(event) # "process"
       THEN /\ queue' = Tail(queue)
            /\ last' = Did("event", EventFilter(event), FALSE)
            /\ UNCHANGED <<files, contextTxt, synced>>
       ELSE \E readOK \in BOOLEAN :
               LET branch == EventBranch(event, watcher.ai_ignore, fs, contextTxt, readOK)
               IN /\ readOK \/ branch = "read_error"
                  /\ files' = EventStore(files, event, branch, fs, contextTxt)
                  /\ IF branch = "read_error"
                     THEN UNCHANGED <<contextTxt>> /\ queue' = Tail(queue)
                     ELSE /\ contextTxt' = [present |-> TRUE, data |-> WatcherExport(files')]
                          /\ queue' = Append(Tail(queue), SelfNotification)
                  /\ synced' = (synced /\ branch # "read_error")
                  /\ last' = Did("event", branch,
                                 HasRow(files, RelativeTo(event.src_path)))

\* watchdog.py on_any_event, lines 56-99, on the notification at the head of the
\* queue: the filters, the store update and commit, the export
EventEffects ==
    LET event == Head(queue)
    IN IF EventFilter(event) # "process"
       THEN /\ queue' = Tail(queue)
            /\ last' = Did("event", EventFilter(event), FALSE)
            /\ UNCHANGED <<files, contextTxt, synced>>
       ELSE \E readOK \in BOOLEAN :
               LET branch == EventBranch(event, watcher.ai_ignore, fs, contextTxt, readOK)
               IN /\ readOK \/ branch = "read_error"
                  /\ files' = EventStore(files, event, branch, fs, contextTxt)
                  /\ contextTxt' = [present |-> TRUE, data |-> WatcherExport(files')]
                  /\ queue' = Append(Tail(queue), SelfNotification)
                  /\ synced' = (synced /\ branch # "read_error")
                  /\ last' = Did("event", branch,
                                 HasRow(files, RelativeTo(event.src_path)))

\* a handler that also refreshes the summary cache
on_any_event_refreshing_summary ==
    /\ watcher.running
    /\ queue # <<>>
    /\ EventEffects
    /\ summaryRow' = update_summary_cache(files', TRUE)
    /\ UNCHANGED <<fs, markerDir, indexing, chat, sessions, pidFile, aiIgnore, dbExists, watcher, changes>>

\* watchdog.py ContextUpdater.on_any_event, called by the observer thread
on_any_event ==
    /\ watcher.running
    /\ queue # <<>>
    /\ EventEffects
    /\ UNCHANGED <<fs, markerDir, indexing, chat, sessions, pidFile, aiIgnore, dbExists, summaryRow, watcher, changes>>

\* where SIGKILL can find the watcher process: between two handler calls, or
\* inside the call for the notification at the head of the queue: before its
\* commit (the open transaction is rolled back), after the commit and before the
\* export, or inside the export, after write_text opened context.txt for
\* writing, which empties it, and before the text was written
KillPoints ==
    {"idle"} \cup
    (IF queue # <<>> /\ EventFilter(Head(queue)) = "process"
     THEN {"before_commit", "before_export", "in_export"} ELSE {})

\* watchdog.py stop_daemon, lines 166-184: os.kill(pid, 9) on the recorded pid,
\* then the unlink of the marker
stop_daemon ==
    IF ~pidFile.present
    THEN /\ last' = Did("kill", "not_running", FALSE)
         /\ UNCHANGED <<fs, markerDir, indexing, chat, sessions, pidFile, aiIgnore, dbExists, files,
                        summaryRow, contextTxt, watcher, queue, changes, synced>>
    ELSE /\ pidFile' = NoPidFile
         /\ IF watcher.running /\ watcher.pid = IntOfText(pidFile.text)
            THEN \E point \in KillPoints : \E readOK \in BOOLEAN :
                    /\ watcher' = NoWatcher
                    /\ queue' = <<>>
                    /\ synced' = FALSE
                    /\ last' = Did("kill", point, FALSE)
                    /\ IF point \in {"idle", "before_commit"}
                       THEN readOK /\ UNCHANGED <<files, contextTxt>>
                       ELSE \E branch \in {EventBranch(Head(queue), watcher.ai_ignore,
                                                       fs, contextTxt, readOK)} :
                               /\ readOK \/ branch = "read_error"
                               /\ files' = EventStore(files, Head(queue), branch,
                                                      fs, contextTxt)
                               /\ contextTxt' = IF point = "in_export"
                                                THEN [present |-> TRUE, data |-> <<>>]
                                                ELSE contextTxt
            ELSE /\ last' = Did("kill", "no_process", FALSE)
                 /\ UNCHANGED <<files, contextTxt, watcher, queue, synced>>
         /\ UNCHANGED <<fs, markerDir, indexing, chat, sessions, aiIgnore, dbExists, summaryRow, changes>>

-----------------------------------------------------------------------------

Next ==
    \/ \E p \in UserPaths : \E new \in FileStates(p) : FsChange(p, new)
    \/ \E new \in IgnoreFiles : EditIgnore(new)
    \/ index
    \/ start_observer
    \/ stop_observer
    \/ on_any_event
    \/ stop_daemon

Spec == Init /\ [][Next]_vars

-----------------------------------------------------------------------------
(* The summary export command (compress.py), beside the operations above *)

\* compress.py compress, lines 138-142: the header, which ends with an empty
\* line, and the text written to output_path
CompressHeader == <<Tok("title", "", 0), NL, Tok("rule", "", RuleWidth), NL, NL>>
compress_text(rows, nulRaises) ==
    CompressHeader \o JoinLines(extract_summaries_from_db(rows, nulRaises)) \o <<NL>>

\* a compress that writes the text of the project_summary row
compress_reading_cache ==
    IF ~markerDir \/ ~dbExists
    THEN /\ last' = Did("compress", "exit", FALSE)
         /\ UNCHANGED <<fs, markerDir, indexing, chat, sessions, pidFile, aiIgnore, dbExists, files,
                        summaryRow, contextTxt, watcher, queue, changes, synced>>
    ELSE /\ last' = Returned("compress", summaryRow.text)
         /\ UNCHANGED <<fs, markerDir, indexing, chat, sessions, pidFile, aiIgnore, dbExists, files, summaryRow,
                        contextTxt, watcher, queue, changes, synced>>

\* compress.py compress, lines 130-145, with the test of the database made by
\* extract_summaries_from_db, lines 110-112
compress ==
    IF ~markerDir \/ ~dbExists
    THEN /\ last' = Did("compress", "exit", FALSE)
         /\ UNCHANGED <<fs, markerDir, indexing, chat, sessions, pidFile, aiIgnore, dbExists, files,
                        summaryRow, contextTxt, watcher, queue, changes, synced>>
    ELSE /\ \E nulRaises \in BOOLEAN :
                /\ nulRaises \/ \E i \in 1..Len(files) :
                       SummaryRaises(files[i].filepath, files[i].content, TRUE)
                /\ last' = Returned("compress", compress_text(files, nulRaises))
         /\ UNCHANGED <<fs, markerDir, indexing, chat, sessions, pidFile, aiIgnore, dbExists, files, summaryRow,
                        contextTxt, watcher, queue, changes, synced>>

NextExport == Next \/ compress

SpecExport == Init /\ [][NextExport]_vars

-----------------------------------------------------------------------------
(* should_index as a function of its inputs: any tree, any context.txt, any rules *)

SampleMirror ==
    [present |-> TRUE, data |-> WatcherExport(<<Row(P_a_b_c, Decode(D_txt))>>)]

InitEligibility ==
    /\ fs \in [UserPaths -> FileShapes]
    /\ markerDir = TRUE
    /\ pidFile = NoPidFile
    /\ aiIgnore \in {NoIgnoreFile} \cup IgnoreFiles
    /\ dbExists = FALSE
    /\ files = <<>>
    /\ summaryRow = NoSummary
    /\ contextTxt \in {NoContextTxt, SampleMirror}
    /\ watcher = NoWatcher
    /\ queue = <<>>
    /\ changes = 0
    /\ synced = FALSE
    /\ chat = NoChat
    /\ sessions = {}
    /\ indexing = NoIndexing
    /\ last = Did("init", "", FALSE)

\* one call of should_index(path, load_ai_ignore())
CallShouldIndex(path) ==
    /\ last' = Probed(path, should_index(path, LoadedRules(aiIgnore), fs, contextTxt))
    /\ UNCHANGED <<fs, markerDir, indexing, chat, sessions, pidFile, aiIgnore, dbExists, files, summaryRow, contextTxt,
                   watcher, queue, changes, synced>>

NextEligibility == \E path \in AbsPaths : CallShouldIndex(path)

SpecEligibility == InitEligibility /\ [][NextEligibility]_vars

\* one call of should_index(path, load_ai_ignore()) during which another
\* process may delete the file at path, a user file of the tree
CallShouldIndexWhile(path, point) ==
    /\ point = "never" \/ (RelativeTo(path) \in UserPaths /\ fs[RelativeTo(path)].kind = "file")
    /\ fs' = IF point = "never" THEN fs ELSE [fs EXCEPT ![RelativeTo(path)] = NoFile]
    /\ last' = [Did("should_index",
                    should_index_while(path, LoadedRules(aiIgnore), fs, contextTxt, point),
                    FALSE) EXCEPT !.path = path]
    /\ UNCHANGED <<markerDir, indexing, chat, sessions, pidFile, aiIgnore, dbExists, files, summaryRow,
                   contextTxt, watcher, queue, changes, synced>>

NextRace == \E path \in AbsPaths : \E point \in DeletePoints : CallShouldIndexWhile(path, point)

SpecRace == InitEligibility /\ [][NextRace]_vars

-----------------------------------------------------------------------------
(* The summary generator as a function of the table: any records, any module *)

\* the i-th definition of a generated module: functions only, a class and its
\* methods, a class with a nested class, a method of the nested class and then
\* methods of its own, or functions and one-line classes in turn
GenLine(shape, i) ==
    [(CASE shape = "functions" -> DefLine("f")
        [] shape = "class" -> (IF i = 1 THEN ClassHead("C") ELSE MethodLine("m"))
        [] shape = "nested" ->
               (CASE i = 1 -> ClassHead("Outer") [] i = 2 -> InnerHead("Inner")
                  [] i = 3 -> InnerMethod("m") [] OTHER -> MethodLine("m"))
        [] OTHER -> (IF i % 2 = 1 THEN DefLine("f") ELSE ClassLine("C")))
        EXCEPT !.v = i]

\* a module of n definitions, one per line
Module(shape, n) ==
    [j \in 1..(2 * n) |-> IF j % 2 = 1 THEN GenLine(shape, (j + 1) \div 2) ELSE NL]

\* the contents a record of path p may hold: generated modules and a module
\* with a NUL character past the first 1024 bytes under a.py, text under the
\* other paths
SummaryContents(p) ==
    IF p = P_a_py
    THEN {Module(shape, n) : shape \in {"functions", "class", "nested", "mixed"}, n \in 0..MaxDefs}
             \cup {Decode(D_nul_out)}
    ELSE IF p = P_a_b_c THEN {Decode(D_txt), Module("functions", 2)}
    ELSE {Decode(D_bad)}

\* the tables: the paths of the tree in any insertion order, each with one of
\* its contents
SummaryTables ==
    {[i \in 1..Len(order) |-> Row(order[i], c[order[i]])] :
        order \in {o \in UNION {[1..k -> TreePaths] : k \in 1..Cardinality(TreePaths)} :
                      \A i, j \in 1..Len(o) : o[i] = o[j] => i = j},
        c \in {[p \in TreePaths |->
                   CASE p = P_a_py -> ca [] p = P_a_b_c -> cb [] OTHER -> cc] :
                  ca \in SummaryContents(P_a_py), cb \in SummaryContents(P_a_b_c),
                  cc \in SummaryContents(CONTEXT_FILE)}}

InitSummary ==
    /\ fs = SampleTree
    /\ markerDir = TRUE
    /\ pidFile = NoPidFile
    /\ aiIgnore = NoIgnoreFile
    /\ dbExists = TRUE
    /\ files \in SummaryTables
    /\ summaryRow = NoSummary
    /\ contextTxt = NoContextTxt
    /\ watcher = NoWatcher
    /\ queue = <<>>
    /\ changes = 0
    /\ synced = FALSE
    /\ chat = NoChat
    /\ sessions = {}
    /\ indexing = NoIndexing
    /\ last = Did("init", "", FALSE)

\* one call of generate_file_summary on the i-th record
CallGenerate(i) ==
    /\ i <= Len(files)
    /\ \E nulRaises \in BOOLEAN :
           last' = IF SummaryRaises(files[i].filepath, files[i].content, nulRaises)
                   THEN [Did("generate_file_summary", "raised", FALSE)
                            EXCEPT !.path = files[i].filepath]
                   ELSE [Returned("generate_file_summary",
                                  generate_file_summary(files[i].filepath,
                                                        files[i].content))
                            EXCEPT !.path = files[i].filepath]
    /\ UNCHANGED <<fs, markerDir, indexing, chat, sessions, pidFile, aiIgnore, dbExists, files, summaryRow,
                   contextTxt, watcher, queue, changes, synced>>

\* one call of extract_summaries_from_db; had records that ast.parse raises
\* ValueError on a NUL character in the interpreter that runs
CallExtract ==
    /\ \E nulRaises \in BOOLEAN :
           last' = [Returned("extract_summaries_from_db",
                             extract_summaries_from_db(files, nulRaises))
                       EXCEPT !.had = nulRaises]
    /\ UNCHANGED <<fs, markerDir, indexing, chat, sessions, pidFile, aiIgnore, dbExists, files, summaryRow,
                   contextTxt, watcher, queue, changes, synced>>

NextSummary ==
    \/ CallExtract
    \/ \E i \in 1..Cardinality(TreePaths) : CallGenerate(i)

SpecSummary == InitSummary /\ [][NextSummary]_vars

-----------------------------------------------------------------------------
(* The chat client (chat.py) *)

\* a text is the sequence number that tells it apart and the number of tokens
\* the tokenizer makes of it
Phrase(s, n) == [s |-> s, n |-> n]

\* chat.py Message; the Optional tokens is <<>> for None and <<n>> for the integer n
Message(number, role, response, tokens) ==
    [index |-> number, role |-> role, response |-> response, tokens |-> tokens]

\* Chat.count_tokens(f"{role}: {response}"): the tokens of the role and of the
\* colon, then the tokens of the text
RolePrefixTokens == 2
count_tokens(role, response) == RolePrefixTokens + response.n

\* msg.tokens or self.count_tokens(...): None and 0 give way to the count
TokensOf(msg) ==
    IF msg.tokens # <<>> /\ msg.tokens[1] # 0 THEN msg.tokens[1]
    ELSE count_tokens(msg.role, msg.response)

\* {"role": msg.role, "content": msg.response}
Sent(msg) == [role |-> msg.role, content |-> msg.response]

\* a prepare_history that passes over a message that does not fit and goes on
\* with the older ones
RECURSIVE PrepareLoop_continuing(_, _, _, _, _)
PrepareLoop_continuing(history, token_size, i, selected_messages, total_tokens) ==
    IF i = 0 THEN selected_messages
    ELSE IF total_tokens + TokensOf(history[i]) > token_size
         THEN PrepareLoop_continuing(history, token_size, i - 1, selected_messages,
                                     total_tokens)
         ELSE PrepareLoop_continuing(history, token_size, i - 1,
                                     <<Sent(history[i])>> \o selected_messages,
                                     total_tokens + TokensOf(history[i]))

\* chat.py Chat.prepare_history, the loop of lines 108-113 over
\* reversed(self.history): the messages 1..i are still to be visited
RECURSIVE PrepareLoop(_, _, _, _, _)
PrepareLoop(history, token_size, i, selected_messages, total_tokens) ==
    IF i = 0 THEN selected_messages
    ELSE IF total_tokens + TokensOf(history[i]) > token_size
         THEN selected_messages
         ELSE PrepareLoop(history, token_size, i - 1,
                          <<Sent(history[i])>> \o selected_messages,
                          total_tokens + TokensOf(history[i]))

\* chat.py Chat.prepare_history
prepare_history(c) == PrepareLoop(c.history, c.token_size, Len(c.history), <<>>, 0)

\* the "not found" condition of load_summary_from_db
SummaryNotFound == [found |-> FALSE, text |-> <<>>]

\* compress.load_summary_from_db, imported by chat.py line 14; its module is not
\* among the sources, and it is taken from section 4.4 of the specification:
\* the summary_text of the single row of project_summary, and the "not found"
\* condition when the table is absent or empty
load_summary_from_db(db, row) ==
    IF db /\ row.present THEN [found |-> TRUE, text |-> row.text] ELSE SummaryNotFound

\* a load_resume_from_db that turns the "not found" condition into an empty summary
load_resume_from_db_blank ==
    /\ last' = Returned("load_resume_from_db",
                        load_summary_from_db(dbExists, summaryRow).text)
    /\ UNCHANGED <<fs, markerDir, indexing, chat, sessions, pidFile, aiIgnore, dbExists, files, summaryRow,
                   contextTxt, watcher, queue, changes, synced>>

\* chat.py Chat.load_resume_from_db: what load_summary_from_db gives, unchanged
load_resume_from_db ==
    /\ \E summary \in {load_summary_from_db(dbExists, summaryRow)} :
           last' = IF summary.found THEN Returned("load_resume_from_db", summary.text)
                   ELSE Did("load_resume_from_db", "not_found", FALSE)
    /\ UNCHANGED <<fs, markerDir, indexing, chat, sessions, pidFile, aiIgnore, dbExists, files, summaryRow,
                   contextTxt, watcher, queue, changes, synced>>

\* one call of prepare_history on the Chat object
CallPrepareHistory ==
    /\ last' = Returned("prepare_history", prepare_history(chat))
    /\ UNCHANGED <<fs, markerDir, indexing, chat, sessions, pidFile, aiIgnore, dbExists, files, summaryRow,
                   contextTxt, watcher, queue, changes, synced>>

\* the histories: messages numbered from 0, of any role, with a text of one
\* token or more; lines 130, 141, 176, 261, 271 and 307 store the count of every
\* message before it is appended
Roles == {"system", "user", "assistant"}
Histories ==
    UNION {{[i \in 1..k |->
                Message(i - 1, r[i], Phrase(i, n[i]),
                        <<count_tokens(r[i], Phrase(i, n[i]))>>)] :
              r \in [1..k -> Roles], n \in [1..k -> 1..MaxTextTokens]} :
           k \in 0..MaxHistory}

\* the table and the summary row that the first index() of the sample tree leaves
SampleTable ==
    write_to_sqlite(<<>>, IndexedFiles(Walked(rglob, UserPaths), SampleTree, NoContextTxt))

\* a Chat of any token_size beside a store that does not exist yet, that has no
\* summary row, or that has the one index() left; step_2_send_summary loads the
\* summary before the dialogue, so a Chat with a history has the summary row
InitChat ==
    /\ fs = SampleTree
    /\ markerDir = TRUE
    /\ pidFile = NoPidFile
    /\ aiIgnore = NoIgnoreFile
    /\ dbExists \in BOOLEAN
    /\ files = IF dbExists THEN SampleTable ELSE <<>>
    /\ summaryRow \in {NoSummary} \cup
                      (IF dbExists THEN {update_summary_cache(SampleTable, TRUE)} ELSE {})
    /\ contextTxt = NoContextTxt
    /\ watcher = NoWatcher
    /\ queue = <<>>
    /\ changes = 0
    /\ synced = FALSE
    /\ chat \in [token_size : 0..MaxTokenSize,
                 history : IF dbExists /\ summaryRow.present THEN Histories ELSE {<<>>}]
    /\ sessions = {}
    /\ indexing = NoIndexing
    /\ last = Did("init", "", FALSE)

NextChat == load_resume_from_db \/ CallPrepareHistory

SpecChat == InitChat /\ [][NextChat]_vars

-----------------------------------------------------------------------------
(* The completion requests of the chat client (chat.py) *)

\* the tokens kept back for the model's answer, lines 149 and 279
ResponseReserve == 100

\* sum(self.count_tokens(f"{m['role']}: {m['content']}") for m in messages_to_send)
RECURSIVE SumTokens(_)
SumTokens(messages) ==
    IF messages = <<>> THEN 0
    ELSE count_tokens(Head(messages).role, Head(messages).content)
             + SumTokens(Tail(messages))

\* lines 147-149 and 277-279: max_tokens_for_response
max_tokens_for_response(token_size, messages_to_send) ==
    token_size - SumTokens(messages_to_send) - ResponseReserve

\* client.chat.completions.create(messages=..., max_tokens=...)
Request(messages, max_tokens) == [messages |-> messages, max_tokens |-> max_tokens]

\* a message appended to history h with its token count stored, as lines
\* 125-132, 136-143, 256-263, 266-273 and 301-309 do
Appended(h, role, n) ==
    Append(h, Message(Len(h), role, Phrase(Len(h) + 1, n),
                      <<count_tokens(role, Phrase(Len(h) + 1, n))>>))

\* the rest of a send after the messages were appended: prepare_history, the
\* request, and the assistant's answer appended unless the call raised
Complete(op, h) ==
    \E messages_to_send \in {prepare_history([chat EXCEPT !.history = h])} :
    \E answer \in 0..MaxTextTokens :
       /\ chat' = [chat EXCEPT !.history =
                       IF answer = 0 THEN h ELSE Appended(h, "assistant", answer)]
       /\ last' = [Did(op, IF answer = 0 THEN "raised" ELSE "done", FALSE)
                      EXCEPT !.out = Request(messages_to_send,
                                             max_tokens_for_response(chat.token_size,
                                                                     messages_to_send))]

\* chat.py Chat._send_and_expect_confirmation, lines 125-189: the system
\* message and the question are appended, the request is issued
send_and_expect_confirmation ==
    /\ Len(chat.history) <= MaxHistory
    /\ \E system_content \in 1..MaxTextTokens :
          Complete("send_and_expect_confirmation",
                   Appended(Appended(chat.history, "system", system_content), "user", 1))
    /\ UNCHANGED <<fs, markerDir, indexing, sessions, pidFile, aiIgnore, dbExists, files, summaryRow,
                   contextTxt, watcher, queue, changes, synced>>

\* chat.py Chat.send_message, lines 251-311: the context of the mentioned files
\* is appended when the lookup finds any, then the user's message, and the
\* request is issued
send_message ==
    /\ Len(chat.history) <= MaxHistory
    /\ \E mentioned_files \in {{}, MentionedNames} :
       \E file_tokens \in 1..MaxTextTokens :
       \E message_from_user \in 1..MaxTextTokens :
       \E file_context \in {IF dbExists
                            THEN fetch_file_contexts_by_names(files, mentioned_files)
                            ELSE <<>>} :
          /\ file_tokens = 1 \/ (mentioned_files # {} /\ file_context # <<>>)
          /\ Complete("send_message",
                      Appended(IF mentioned_files # {} /\ file_context # <<>>
                               THEN Appended(chat.history, "system", file_tokens)
                               ELSE chat.history,
                               "user", message_from_user))
    /\ UNCHANGED <<fs, markerDir, indexing, sessions, pidFile, aiIgnore, dbExists, files, summaryRow,
                   contextTxt, watcher, queue, changes, synced>>

\* the token_size values of the model: small ones, and the same above the reserve
TokenSizes == (0..MaxTokenSize) \cup (ResponseReserve..(ResponseReserve + MaxTokenSize))

\* a Chat of any token_size with any history, beside an indexed store or none
InitSend ==
    /\ fs = SampleTree
    /\ markerDir = TRUE
    /\ pidFile = NoPidFile
    /\ aiIgnore = NoIgnoreFile
    /\ dbExists \in BOOLEAN
    /\ files = IF dbExists THEN SampleTable ELSE <<>>
    /\ summaryRow = IF dbExists THEN update_summary_cache(SampleTable, TRUE) ELSE NoSummary
    /\ contextTxt = NoContextTxt
    /\ watcher = NoWatcher
    /\ queue = <<>>
    /\ changes = 0
    /\ synced = FALSE
    /\ chat \in [token_size : TokenSizes, history : Histories]
    /\ sessions = {}
    /\ indexing = NoIndexing
    /\ last = Did("init", "", FALSE)

NextSend == send_message \/ send_and_expect_confirmation

SpecSend == InitSend /\ [][NextSend]_vars

-----------------------------------------------------------------------------
(* A watch session in progress, with any notification waiting *)

\* the notifications the observer can deliver: of the three kinds the handler
\* acts on and of kind 'moved', about a file or a directory, at a path of the
\* tree or outside the project root
EventKinds == {"created", "modified", "deleted", "moved"}
Events == {Event(k, path, d) : k \in EventKinds, path \in AbsPaths, d \in BOOLEAN}

\* a session that loaded the rules of .ai-ignore when it started, on a store
\* that index() filled or left empty; the tree and .ai-ignore are what the user
\* made of them since, and one notification waits in the queue
InitSession ==
    /\ fs \in {f \in [UserPaths -> UNION {FileStates(p) : p \in UserPaths}] :
                  \A p \in UserPaths : f[p] \in FileStates(p)}
    /\ markerDir = TRUE
    /\ pidFile = [present |-> TRUE, text |-> StrOfPid(WatcherPid)]
    /\ aiIgnore \in IgnoreFiles
    /\ dbExists = TRUE
    /\ files \in {<<>>, SampleTable}
    /\ summaryRow = update_summary_cache(files, TRUE)
    /\ contextTxt \in {NoContextTxt, [present |-> TRUE, data |-> WatcherExport(files)]}
    /\ \E atStart \in IgnoreFiles :
           watcher = [running |-> TRUE, ai_ignore |-> LoadedRules(atStart),
                      pid |-> WatcherPid]
    /\ queue \in {<<e>> : e \in Events}
    /\ changes = 0
    /\ synced = FALSE
    /\ chat = NoChat
    /\ sessions = {}
    /\ indexing = NoIndexing
    /\ last = Did("init", "", FALSE)

\* the session handles what waits, the user rewrites .ai-ignore, the session is
\* interrupted and another one is started
NextSession ==
    \/ on_any_event
    \/ \E new \in IgnoreFiles : EditIgnore(new)
    \/ stop_observer
    \/ start_observer

SpecSession == InitSession /\ [][NextSession]_vars

-----------------------------------------------------------------------------
(* index() on any tree, with any rules, over an empty or a filled store *)

InitIndex ==
    /\ fs \in {f \in [UserPaths -> UNION {FileStates(p) : p \in UserPaths}] :
                  \A p \in UserPaths : f[p] \in FileStates(p)}
    /\ markerDir \in BOOLEAN
    /\ pidFile = NoPidFile
    /\ aiIgnore \in IF markerDir THEN {NoIgnoreFile} \cup IgnoreFiles ELSE {NoIgnoreFile}
    /\ dbExists \in IF markerDir THEN BOOLEAN ELSE {FALSE}
    /\ files = IF dbExists THEN SampleTable ELSE <<>>
    /\ summaryRow = IF dbExists THEN update_summary_cache(SampleTable, TRUE) ELSE NoSummary
    /\ contextTxt \in IF dbExists
                      THEN {NoContextTxt, [present |-> TRUE, data |-> WatcherExport(files)]}
                      ELSE {NoContextTxt}
    /\ watcher = NoWatcher
    /\ queue = <<>>
    /\ changes = 0
    /\ synced = FALSE
    /\ chat = NoChat
    /\ sessions = {}
    /\ indexing = NoIndexing
    /\ last = Did("init", "", FALSE)

\* index.py index, with the warnings of line 124 kept in the history
index_noting_warnings ==
    IF ~markerDir
    THEN /\ last' = Did("index", "exit", FALSE)
         /\ UNCHANGED <<fs, markerDir, indexing, chat, sessions, pidFile, aiIgnore, dbExists,
                        files, summaryRow, contextTxt, watcher, queue, changes, synced>>
    ELSE IndexRun(TRUE)

SpecIndex == InitIndex /\ [][index_noting_warnings]_vars

-----------------------------------------------------------------------------
(* The lifecycle of watch sessions: any number of them, seen from the pid marker *)

\* the process ids the system gives to watcher processes
SessionPids == WatcherPid..(WatcherPid + MaxSessions - 1)

\* watchdog.py start_observer, lines 132-143, in a new process pid: the two
\* tests, then the marker is written with str(pid), whether or not a marker
\* exists and a session runs already
StartSession(pid) ==
    /\ pid \notin sessions
    /\ IF ~markerDir \/ ~dbExists
       THEN /\ last' = Did("start", "exit", FALSE)
            /\ UNCHANGED <<pidFile, sessions>>
       ELSE /\ pidFile' = [present |-> TRUE, text |-> StrOfPid(pid)]
            /\ sessions' = sessions \cup {pid}
            /\ last' = Did("start", "running", FALSE)
    /\ UNCHANGED <<fs, markerDir, indexing, chat, aiIgnore, dbExists, files, summaryRow, contextTxt,
                   watcher, queue, changes, synced>>

\* watchdog.py start_observer, lines 156-163, in the session of process pid:
\* KeyboardInterrupt, then the finally block unlinks the marker if one exists,
\* whichever session wrote it
InterruptSession(pid) ==
    /\ pid \in sessions
    /\ sessions' = sessions \ {pid}
    /\ pidFile' = NoPidFile
    /\ last' = Did("stop", "", FALSE)
    /\ UNCHANGED <<fs, markerDir, indexing, chat, aiIgnore, dbExists, files, summaryRow, contextTxt,
                   watcher, queue, changes, synced>>

\* the process of a session is killed from outside (SIGKILL, a closed
\* terminal, a power loss): no line of start_observer runs any more
KillProcess(pid) ==
    /\ pid \in sessions
    /\ sessions' = sessions \ {pid}
    /\ last' = Did("process_kill", "", FALSE)
    /\ UNCHANGED <<fs, markerDir, indexing, chat, pidFile, aiIgnore, dbExists, files, summaryRow,
                   contextTxt, watcher, queue, changes, synced>>

\* a stop_daemon whose except block reports the error and leaves the marker
StopDaemon_keeping_on_error ==
    IF ~pidFile.present
    THEN /\ last' = Did("kill", "not_running", FALSE)
         /\ UNCHANGED <<fs, markerDir, indexing, chat, sessions, pidFile, aiIgnore, dbExists, files,
                        summaryRow, contextTxt, watcher, queue, changes, synced>>
    ELSE /\ \E pid \in {IntOfText(pidFile.text)} :
            \E outcome \in {"killed", "kill_failed", "read_failed"} :
               /\ outcome = "killed" => pid \in sessions
               /\ sessions' = IF outcome = "killed" THEN sessions \ {pid} ELSE sessions
               /\ pidFile' = IF outcome = "killed" THEN NoPidFile ELSE pidFile
               /\ last' = Did("kill", outcome, FALSE)
         /\ UNCHANGED <<fs, markerDir, indexing, chat, aiIgnore, dbExists, files, summaryRow,
                        contextTxt, watcher, queue, changes, synced>>

\* watchdog.py stop_daemon, lines 166-184, seen from the marker: the marker is
\* read and os.kill on the recorded pid ends that process; or read_text or int()
\* raises, or os.kill raises (no such process, or no permission to signal it),
\* and the except block unlinks the marker all the same
StopDaemon ==
    IF ~pidFile.present
    THEN /\ last' = Did("kill", "not_running", FALSE)
         /\ UNCHANGED <<fs, markerDir, indexing, chat, sessions, pidFile, aiIgnore, dbExists, files,
                        summaryRow, contextTxt, watcher, queue, changes, synced>>
    ELSE /\ pidFile' = NoPidFile
         /\ \E pid \in {IntOfText(pidFile.text)} :
            \E outcome \in {"killed", "kill_failed", "read_failed"} :
               /\ outcome = "killed" => pid \in sessions
               /\ sessions' = IF outcome = "killed" THEN sessions \ {pid} ELSE sessions
               /\ last' = Did("kill", outcome, FALSE)
         /\ UNCHANGED <<fs, markerDir, indexing, chat, aiIgnore, dbExists, files, summaryRow,
                        contextTxt, watcher, queue, changes, synced>>

\* sessions come and go beside runs of index(), from the project as init left it
NextLifecycle ==
    \/ index
    \/ \E pid \in SessionPids : StartSession(pid)
    \/ \E pid \in SessionPids : InterruptSession(pid)
    \/ \E pid \in SessionPids : KillProcess(pid)
    \/ StopDaemon

SpecLifecycle == Init /\ [][NextLifecycle]_vars

-----------------------------------------------------------------------------
(* Renames inside the working tree, beside index() and a watch session *)

\* what the observer delivers for the rename of a file from src to dst, both
\* under the watched root: one notification of kind 'moved' whose src_path is
\* the old path when it pairs the two halves of the rename, and a 'deleted' of
\* the old path followed by a 'created' of the new one when it does not
MoveNotifications(src, dst, paired) ==
    IF paired THEN <<Event("moved", Abs(src), FALSE)>>
    ELSE <<Event("deleted", Abs(src), FALSE), Event("created", Abs(dst), FALSE)>>

\* the user renames the file at src to the free path dst
MoveFile(src, dst) ==
    /\ changes < MaxChanges
    /\ fs[src].kind = "file"
    /\ fs[dst].kind = "none"
    /\ fs' = [fs EXCEPT ![src] = NoFile, ![dst] = fs[src]]
    /\ \E paired \in BOOLEAN :
          queue' = IF watcher.running
                   THEN queue \o MoveNotifications(src, dst, paired) ELSE queue
    /\ changes' = changes + 1
    /\ last' = [Did("move", "", HasRow(files, src)) EXCEPT !.path = src, !.out = dst]
    /\ UNCHANGED <<markerDir, indexing, chat, sessions, pidFile, aiIgnore, dbExists, files, summaryRow,
                   contextTxt, watcher, synced>>

\* an initialised project with any tree and any rules, not indexed yet
InitMove ==
    /\ fs \in {f \in [UserPaths -> UNION {FileStates(p) : p \in UserPaths}] :
                  \A p \in UserPaths : f[p] \in FileStates(p)}
    /\ markerDir = TRUE
    /\ pidFile = NoPidFile
    /\ aiIgnore \in {NoIgnoreFile} \cup IgnoreFiles
    /\ dbExists = FALSE
    /\ files = <<>>
    /\ summaryRow = NoSummary
    /\ contextTxt = NoContextTxt
    /\ watcher = NoWatcher
    /\ queue = <<>>
    /\ changes = 0
    /\ synced = FALSE
    /\ chat = NoChat
    /\ sessions = {}
    /\ indexing = NoIndexing
    /\ last = Did("init", "", FALSE)

NextMove ==
    \/ \E src \in UserPaths : \E dst \in UserPaths : MoveFile(src, dst)
    \/ index
    \/ start_observer
    \/ stop_observer
    \/ on_any_event

SpecMove == InitMove /\ [][NextMove]_vars

-----------------------------------------------------------------------------
(* index() step by step, beside a running watch session *)

\* index.py index, lines 109-116: the test of the marker directory, the rules
\* are loaded, indexed_files is empty and the walk is about to start
IndexBegin ==
    /\ ~indexing.active
    /\ IF ~markerDir
       THEN /\ last' = Did("index", "exit", FALSE)
            /\ UNCHANGED <<aiIgnore, indexing>>
       ELSE /\ aiIgnore' = IgnoreFileAfterLoad(aiIgnore)
            /\ indexing' = [active |-> TRUE, ai_ignore |-> LoadedRules(aiIgnore),
                            todo |-> rglob, indexed_files |-> <<>>]
            /\ last' = Did("index", "walking", FALSE)
    /\ UNCHANGED <<fs, markerDir, chat, sessions, pidFile, dbExists, files, summaryRow,
                   contextTxt, watcher, queue, changes, synced>>

\* index.py index, lines 117-124, for the next path of the walk: should_index,
\* then the read, whose pair is appended unless the read raised
IndexVisit ==
    /\ indexing.active
    /\ indexing.todo # <<>>
    /\ \E path \in {Head(indexing.todo)} : \E readOK \in BOOLEAN :
          /\ readOK \/ should_index(Abs(path), indexing.ai_ignore, fs, contextTxt)
          /\ indexing' =
                [indexing EXCEPT
                    !.todo = Tail(indexing.todo),
                    !.indexed_files =
                        IF readOK /\ should_index(Abs(path), indexing.ai_ignore, fs, contextTxt)
                        THEN indexing.indexed_files \o IndexedFiles(<<path>>, fs, contextTxt)
                        ELSE indexing.indexed_files]
    /\ last' = Did("index", "walking", FALSE)
    /\ UNCHANGED <<fs, markerDir, chat, sessions, pidFile, aiIgnore, dbExists, files,
                   summaryRow, contextTxt, watcher, queue, changes, synced>>

\* index.py index, lines 126-127, after the walk: write_to_sqlite of the pairs
\* read during the walk, then update_summary_cache
IndexWrite ==
    /\ indexing.active
    /\ indexing.todo = <<>>
    /\ dbExists' = TRUE
    /\ files' = write_to_sqlite(files, indexing.indexed_files)
    /\ \E nulRaises \in BOOLEAN :
           /\ nulRaises \/ \E i \in 1..Len(files') :
                  SummaryRaises(files'[i].filepath, files'[i].content, TRUE)
           /\ summaryRow' = update_summary_cache(files', nulRaises)
    /\ indexing' = NoIndexing
    /\ last' = Did("index", "done", FALSE)
    /\ UNCHANGED <<fs, markerDir, chat, sessions, pidFile, aiIgnore, contextTxt, watcher,
                   queue, changes, synced>>

\* a session that started on the table index() made of the sample tree
InitConcurrent ==
    /\ fs = SampleTree
    /\ markerDir = TRUE
    /\ pidFile = [present |-> TRUE, text |-> StrOfPid(WatcherPid)]
    /\ aiIgnore \in IgnoreFiles
    /\ dbExists = TRUE
    /\ files = write_to_sqlite(<<>>,
                   IndexedFiles(Walked(rglob, Eligible(LoadedRules(aiIgnore), fs, NoContextTxt)),
                                fs, NoContextTxt))
    /\ summaryRow = update_summary_cache(files, TRUE)
    /\ contextTxt = NoContextTxt
    /\ watcher = [running |-> TRUE, ai_ignore |-> LoadedRules(aiIgnore), pid |-> WatcherPid]
    /\ queue = <<>>
    /\ changes = 0
    /\ synced = TRUE
    /\ chat = NoChat
    /\ sessions = {}
    /\ indexing = NoIndexing
    /\ last = Did("start", "running", FALSE)

\* the user changes the tree, the session handles the notifications, and a run
\* of index() in another process advances between them
NextConcurrent ==
    \/ \E p \in UserPaths : \E new \in FileStates(p) : FsChange(p, new)
    \/ on_any_event
    \/ IndexBegin
    \/ IndexVisit
    \/ IndexWrite

SpecConcurrent == InitConcurrent /\ [][NextConcurrent]_vars

-----------------------------------------------------------------------------
(* Vocabulary of the properties of the store *)

\* the step is a run of index() that returned normally
IndexReturned == last'.op = "index" /\ last'.branch = "done"

\* the (filepath, content) pairs a sequence of records holds
Records(rows) == {<<rows[i].filepath, rows[i].content>> : i \in 1..Len(rows)}

\* what reading the file at project-relative path p gives
ContentRead(p) == Decode(FileAt(Abs(p), fs, contextTxt).data)

\* the paths of the tree for which should_index is true during the walk
WalkEligible == Eligible(LoadedRules(aiIgnore), fs, contextTxt)

\* the project-relative path lies in the marker directory
InMarkerDir(p) == p = AI_CONTEXT_DIR \/ StartsWith(p, AI_CONTEXT_DIR \o Sep)

\* the step is the watcher handling the notification at the head of the queue
EventHandled == last'.op = "event"

\* the notification is one the handler acts on: about a file, of kind created,
\* modified or deleted, under the root and outside .ai-context
Relevant(event) ==
    /\ ~event.is_directory
    /\ event.event_type \in {"created", "modified", "deleted"}
    /\ StartsWith(event.src_path, Cwd \o Sep)
    /\ ~InMarkerDir(RelativeTo(event.src_path))

\* the records of every path but p are the same in both tables
SameElsewhere(before, after, p) ==
    /\ \A i \in 1..Len(before) :
           before[i].filepath # p => \E j \in 1..Len(after) : after[j] = before[i]
    /\ \A j \in 1..Len(after) :
           after[j].filepath # p => \E i \in 1..Len(before) : before[i] = after[j]

-----------------------------------------------------------------------------
(* C1: what the files table holds after index() *)

-----------------------------------------------------------------------------
(* C2: the watcher keeps the store consistent with the tree *)

-----------------------------------------------------------------------------
(* C3: the eligibility rules *)

\* the offset of the i-th run of data
Offset(data, i) == SumBytes(SubSeq(data, 1, i - 1))

NoNulInFirstKilobyte(data) ==
    \A i \in 1..Len(data) : data[i].k = "nul" => Offset(data, i) >= 1024

\* the five rules as the claim words them
FiveRulesAsClaimed(path) ==
    LET file == FileAt(path, fs, contextTxt)
    IN /\ file.kind = "file"
       /\ StartsWith(path, Cwd \o Sep)
       /\ ~match_file(LoadedRules(aiIgnore), RelativeTo(path))
       /\ NoNulInFirstKilobyte(file.data)
       /\ SumBytes(file.data) <= 1000000

\* C3 as stated: should_index(path) is true if and only if the path is an existing
\* regular file, lies under the project root, is not matched by the ignore
\* matcher, has no NUL byte in its first 1024 bytes and is at most 1,000,000 bytes
C3_AsClaimed ==
    last.op = "should_index" =>
        (last.branch = "true" <=> FiveRulesAsClaimed(last.path))

\* C3 amended: the same five rules, the fourth being that the first 1024 bytes
\* can be read and hold no NUL byte (a file that cannot be opened counts as
\* binary); so a NUL byte in the first 1024 bytes always excludes the file
C3_Eligibility ==
    last.op = "should_index" =>
        /\ last.branch = "true" <=>
               /\ FiveRulesAsClaimed(last.path)
               /\ FileAt(last.path, fs, contextTxt).readable
        /\ ~NoNulInFirstKilobyte(FileAt(last.path, fs, contextTxt).data)
               => last.branch = "false"

\* a file of exactly 1,000,000 bytes was found eligible
C3_Witness ==
    /\ last.op = "should_index"
    /\ last.branch = "true"
    /\ SumBytes(FileAt(last.path, fs, contextTxt).data) = 1000000

-----------------------------------------------------------------------------
(* C4: the 'deleted' event *)

-----------------------------------------------------------------------------
(* C5: a 'created' or 'modified' event for a path that is not eligible *)

\* C5: a 'created' or 'modified' event for a file path of which should_index,
\* called with the matcher the watcher loaded, is false when the event is
\* handled leaves no record for that path, whether or not one existed, and
\* leaves every other record alone
C5_IneligibleEvent ==
    [][(/\ EventHandled
        /\ Relevant(Head(queue))
        /\ Head(queue).event_type \in {"created", "modified"}
        /\ ~should_index(Head(queue).src_path, watcher.ai_ignore, fs, contextTxt)) =>
          \A p \in {RelativeTo(Head(queue).src_path)} :
              /\ ~HasRow(files', p)
              /\ SameElsewhere(files, files', p)]_vars

\* a 'created' or 'modified' event was handled for a path that had a record and
\* was no longer eligible
C5_Witness ==
    /\ last.op = "event"
    /\ last.branch = "excluded"
    /\ last.had
    /\ ~HasRow(files, P_a_py)
    /\ fs[P_a_py] = RegularFile(D_over)

-----------------------------------------------------------------------------
(* C6: one record per filepath *)

\* the contents an upsert may carry
SampleContents == {Decode(D_py), Decode(D_txt), Decode(D_bad)}

\* the number of records of the path
Count(rows, p) == Cardinality({i \in 1..Len(rows) : rows[i].filepath = p})

\* C6: after any sequence of index() runs and watcher events the files table
\* holds at most one record per filepath; and upserting the same (path, content)
\* twice, by the watcher's single upsert or by write_to_sqlite (in one batch or in
\* two runs), yields the same table as upserting it once: one record for the path,
\* with that content
C6_OneRecordPerPath ==
    /\ \A p \in RowPaths(files) : Count(files, p) = 1
    /\ \A p \in TreePaths, c \in SampleContents :
           \A once \in {InsertOrReplace(files, p, c)},
              batch \in {write_to_sqlite(files, <<(<<p, c>>)>>)} :
               /\ InsertOrReplace(once, p, c) = once
               /\ Count(once, p) = 1
               /\ <<p, c>> \in Records(once)
               /\ write_to_sqlite(batch, <<(<<p, c>>)>>) = batch
               /\ write_to_sqlite(files, <<(<<p, c>>), (<<p, c>>)>>) = batch
               /\ batch = once

\* the watcher has upserted a path that already had a record
C6_Witness ==
    /\ last.op = "event"
    /\ last.branch = "updated"
    /\ last.had
    /\ Len(files) >= 2

-----------------------------------------------------------------------------
(* C7: the order in which the consumers read the files table *)

\* p sorts before q, character by character
RECURSIVE LexLess(_, _)
LexLess(p, q) ==
    IF q = <<>> THEN FALSE
    ELSE IF p = <<>> THEN TRUE
    ELSE IF Head(p) = Head(q) THEN LexLess(Tail(p), Tail(q))
    ELSE Ord(Head(p)) < Ord(Head(q))

Ascending(rows) ==
    \A i \in 1..(Len(rows) - 1) : LexLess(rows[i].filepath, rows[i + 1].filepath)

\* the same records inserted in every other order
Reorderings(rows) ==
    {[i \in 1..Len(rows) |-> rows[g[i]]] :
        g \in {h \in [1..Len(rows) -> 1..Len(rows)] :
                  \A i, j \in 1..Len(rows) : h[i] = h[j] => i = j}}

\* the rows a consumer that takes them with ORDER BY filepath reads are the
\* table's rows, ascending
ReadsAscending(rows) ==
    \A read \in {scan_ordered(rows)} :
        Ascending(read) /\ Len(read) = Len(rows) /\ Records(read) = Records(rows)

\* the mirror export, the read export, summary generation and the chat's full
\* context give the same output for the records inserted in any order
FourConsumersAgree(rows, other) ==
    /\ WatcherExport(other) = WatcherExport(rows)
    /\ ReadExport(other) = ReadExport(rows)
    /\ \A nulRaises \in BOOLEAN :
           extract_summaries_from_db(other, nulRaises) = extract_summaries_from_db(rows, nulRaises)
    /\ load_context_from_db(other) = load_context_from_db(rows)

\* the rows the chat reads for the file names mentioned in a message
MentionedRows(rows, filenames) ==
    SelectSeq(rows, LAMBDA r : \E name \in filenames : LikeTail(r.filepath, name))

\* C7 as stated: every consumer of the files table reads the records in ascending
\* order of filepath, so each consumer's output is the same whatever the order
\* in which the records were inserted; the chat's context of the files mentioned
\* in a message is one of the consumers
C7_AsClaimed ==
    /\ ReadsAscending(files)
    /\ \A other \in Reorderings(files) : FourConsumersAgree(files, other)
    /\ \A filenames \in SUBSET MentionedNames \ {{}} :
           /\ Ascending(MentionedRows(files, filenames))
           /\ \A other \in Reorderings(files) :
                  fetch_file_contexts_by_names(other, filenames)
                      = fetch_file_contexts_by_names(files, filenames)

\* C7 for the four consumers that read with ORDER BY filepath: they read the
\* records ascending, and their outputs do not depend on the insertion order
C7_OrderedConsumers ==
    /\ ReadsAscending(files)
    /\ \A other \in Reorderings(files) : FourConsumersAgree(files, other)

\* the table stores three records in an order that is not the ascending one
C7_Witness ==
    /\ Len(files) = 3
    /\ ~Ascending(files)

-----------------------------------------------------------------------------
(* C8: the summary cache after index() *)

\* the records of the table, ascending by filepath
AscendingRecords(rows) == CHOOSE r \in Reorderings(rows) : Ascending(r)

\* the summary of one record, as extract_summaries_from_db keeps it
PerFileSummary(r, nulRaises) ==
    IF SummaryRaises(r.filepath, r.content, nulRaises)
    THEN ErrorMarker(r.filepath)
    ELSE strip(generate_file_summary(r.filepath, r.content))

\* C8: immediately after index() returns, the project_summary row exists and
\* its text is the fixed header, then the per-file summaries of exactly the
\* records then in the files table, in ascending path order, joined by newlines
C8_SummaryAfterIndex ==
    [][IndexReturned =>
          /\ summaryRow'.present
          /\ \A rows \in {AscendingRecords(files')} :
                 \E nulRaises \in BOOLEAN :
                     summaryRow'.text =
                         SummaryHeader
                             \o JoinLines([i \in 1..Len(rows) |->
                                              PerFileSummary(rows[i], nulRaises)])
                             \o <<NL>>]_vars

\* index() has returned with three records stored out of path order, among
\* them one it did not write in this run
C8_Witness ==
    /\ last.op = "index"
    /\ last.branch = "done"
    /\ last.had
    /\ summaryRow.present
    /\ Len(files) = 3
    /\ ~Ascending(files)

-----------------------------------------------------------------------------
(* C9: the watcher never touches the summary cache *)

\* C9: no step other than a run of index() changes the project_summary row; in
\* particular no watcher event, processed or filtered, of any kind does
C9_SummaryUntouched ==
    [][(last'.op # "index") => summaryRow' = summaryRow]_vars

\* the watcher has changed the files table, and the cached summary is no longer
\* the summary of the table
C9_Witness ==
    /\ last.op = "event"
    /\ last.branch \in {"updated", "excluded", "deleted"}
    /\ summaryRow.present
    /\ summaryRow.text # full_summary(files, TRUE)

-----------------------------------------------------------------------------
(* C10: the mirror after every processed event *)

\* header line, content, separator line, for each record in turn
RECURSIVE BlockRendering(_)
BlockRendering(rows) ==
    IF rows = <<>> THEN <<>>
    ELSE BlockRendering(SubSeq(rows, 1, Len(rows) - 1))
             \o <<PathTok("hdr", rows[Len(rows)].filepath,
                          14 + Len(rows[Len(rows)].filepath), 0), NL>>
             \o rows[Len(rows)].content
             \o <<NL, Tok("sep", "", 60), NL>>

\* C10: after every event the watcher processes (a created, modified or
\* deleted file event under the root and outside .ai-context, whichever branch
\* it takes) context.txt holds the block rendering, in path order, of the files
\* table as the event's commit left it
C10_MirrorAfterEvent ==
    [][(EventHandled /\ Relevant(Head(queue))) =>
          /\ contextTxt'.present
          /\ contextTxt'.data = BlockRendering(AscendingRecords(files'))]_vars

\* an event whose read failed was processed, and the mirror was written
C10_Witness ==
    /\ last.op = "event"
    /\ last.branch = "read_error"
    /\ contextTxt.present
    /\ files # <<>>

-----------------------------------------------------------------------------
(* C11: events in .ai-context are ignored, so the watcher's own writes make no work *)

\* the handler calls still to come for the notifications in q: one for a
\* notification a filter drops, two for a notification that is processed (its
\* own call and the call for the notification of the context.txt it writes)
RECURSIVE CallsToCome(_)
CallsToCome(q) ==
    IF q = <<>> THEN 0
    ELSE (IF EventFilter(Head(q)) = "process" THEN 2 ELSE 1) + CallsToCome(Tail(q))

\* C11: a handler call for a notification whose path is .ai-context or lies in
\* it changes neither the files table nor context.txt and queues nothing; a
\* notification of any kind about context.db or context.txt is dropped by that
\* filter, the notifications a handler call causes are all of that kind, and every handler
\* call lowers the number of calls still to come, so that once the external
\* changes stop the queue empties after that many calls and the watcher writes
\* neither the store nor the mirror any more.
C11_MarkerDirIgnored ==
    [][EventHandled =>
          /\ InMarkerDir(RelativeTo(Head(queue).src_path)) =>
                 /\ files' = files
                 /\ contextTxt' = contextTxt
                 /\ queue' = Tail(queue)
          /\ \A p \in {CONTEXT_DB, CONTEXT_FILE} :
             \A kind \in {"created", "modified", "deleted"} :
                 EventFilter(Event(kind, Abs(p), FALSE)) = "skip_ai_context"
          /\ \A i \in Len(queue)..Len(queue') :
                 InMarkerDir(RelativeTo(queue'[i].src_path))
          /\ CallsToCome(queue') < CallsToCome(queue)]_vars

\* the notification of the watcher's write of context.txt was dropped, and
\* nothing is left to handle
C11_Witness ==
    /\ last.op = "event"
    /\ last.branch = "skip_ai_context"
    /\ contextTxt.present
    /\ queue = <<>>

-----------------------------------------------------------------------------
(* C12: load_ai_ignore on a missing and on an existing .ai-ignore *)

\* the step is an operation that got as far as calling load_ai_ignore(): an
\* index() past its test of the marker directory, or a watch session that started
IgnoreLoaded ==
    \/ last'.op = "index" /\ last'.branch = "done"
    \/ last'.op = "start" /\ last'.branch = "running"

\* C12: when .ai-ignore does not exist, load_ai_ignore creates it with the one
\* comment header line and returns no rule: no path matches the rule set, every
\* path's eligibility is what the other criteria give, and a session that starts
\* holds the empty rule set; when the file exists it is left as it is.
C12_LoadAiIgnore ==
    [][IgnoreLoaded =>
          IF aiIgnore = NoIgnoreFile
          THEN /\ aiIgnore' = IgnoreFile(<<HeaderLine>>)
               /\ \A rules \in {LoadedRules(aiIgnore), LoadedRules(aiIgnore')} :
                      /\ rules = <<>>
                      /\ \A p \in TreePaths :
                             /\ ~match_file(rules, p)
                             /\ should_index(Abs(p), rules, fs, contextTxt)
                                  <=> /\ FileAt(Abs(p), fs, contextTxt).kind = "file"
                                      /\ ~is_binary(FileAt(Abs(p), fs, contextTxt))
                                      /\ SumBytes(FileAt(Abs(p), fs, contextTxt).data)
                                            <= MaxFileSize
               /\ last'.op = "start" => watcher'.ai_ignore = <<>>
          ELSE aiIgnore' = aiIgnore]_vars

\* index() ran in a project that had no .ai-ignore and left the header-only file
C12_Witness ==
    /\ last.op = "index"
    /\ last.branch = "done"
    /\ changes = 0
    /\ aiIgnore = IgnoreFile(<<HeaderLine>>)

-----------------------------------------------------------------------------
(* C13: index() removes no record *)

\* C13: every record the files table held before index() is in the table when
\* index() returns: with the content it had, or, when its path is one the walk
\* found eligible, with the content the walk read for that path; so the record
\* of a path the walk did not accumulate (the file vanished, became ineligible
\* or could not be read) is present with unchanged content.
C13_IndexRemovesNothing ==
    [][IndexReturned =>
          \A read \in {[p \in WalkEligible |-> ContentRead(p)]} :
             /\ Len(files') >= Len(files)
             /\ \A i \in 1..Len(files) :
                    \/ \E j \in 1..Len(files') : files'[j] = files[i]
                    \/ /\ files[i].filepath \in DOMAIN read
                       /\ \E j \in 1..Len(files') :
                              files'[j] = Row(files[i].filepath,
                                              read[files[i].filepath])]_vars

\* index() has returned and the table still holds the record of a path that is
\* no longer in the tree
C13_Witness ==
    /\ last.op = "index"
    /\ last.branch = "done"
    /\ \E p \in UserPaths : HasRow(files, p) /\ fs[p].kind = "none"

-----------------------------------------------------------------------------
(* C16: index() without the marker directory *)

\* C16: when .ai-context does not exist, index() exits with code 1 and nothing
\* else: no .ai-ignore is created, nothing is walked or written, the database,
\* the files table and the project_summary row are as they were.
C16_IndexNeedsMarkerDir ==
    [][(last'.op = "index" /\ ~markerDir) =>
          /\ last'.branch = "exit"
          /\ UNCHANGED <<fs, markerDir, indexing, chat, sessions, pidFile, aiIgnore, dbExists, files,
                         summaryRow, contextTxt, watcher, queue, changes, synced>>]_vars

\* index() has exited in a directory without .ai-context: there is no
\* .ai-ignore, no database, no record and no summary
C16_Witness ==
    /\ last.op = "index"
    /\ last.branch = "exit"
    /\ ~markerDir
    /\ aiIgnore = NoIgnoreFile
    /\ ~dbExists
    /\ files = <<>>
    /\ summaryRow = NoSummary

-----------------------------------------------------------------------------
(* C17: start_observer without the marker directory or without the database *)

\* C17: when .ai-context or context.db is absent, start_observer exits with
\* code 1 and nothing else: no pid marker is written, no ignore rule is loaded
\* (so no .ai-ignore is created), no subscription starts and no stored state
\* changes; and a watch session only ever runs where both exist.
C17_StartNeedsStore ==
    [][/\ (last'.op = "start" /\ (~markerDir \/ ~dbExists)) =>
             /\ last'.branch = "exit"
             /\ UNCHANGED <<fs, markerDir, indexing, chat, sessions, pidFile, aiIgnore, dbExists, files,
                            summaryRow, contextTxt, watcher, queue, changes, synced>>
       /\ watcher'.running => markerDir' /\ dbExists']_vars

\* start_observer has exited in a project that has .ai-context and no
\* context.db: there is no pid marker, no .ai-ignore and no session
C17_Witness ==
    /\ last.op = "start"
    /\ last.branch = "exit"
    /\ markerDir
    /\ ~dbExists
    /\ ~pidFile.present
    /\ aiIgnore = NoIgnoreFile
    /\ ~watcher.running

-----------------------------------------------------------------------------
(* C18: the pid marker of a watch session *)

\* C18: when a watch session starts, .watchdog.pid holds the decimal process id
\* of the watcher; when start_observer returns through its interrupt path, the
\* observer is stopped and joined (no session runs, no notification waits for
\* a handler) and .watchdog.pid does not exist.
C18_PidMarker ==
    [][/\ (last'.op = "start" /\ last'.branch = "running") =>
             /\ watcher'.running
             /\ pidFile'.present
             /\ pidFile'.text = StrOfPid(watcher'.pid)
             /\ IntOfText(pidFile'.text) = watcher'.pid
       /\ last'.op = "stop" =>
             /\ pidFile.present
             /\ ~pidFile'.present
             /\ ~watcher'.running
             /\ queue' = <<>>]_vars

\* a session that handled a notification was interrupted, and its marker is gone
C18_Witness ==
    /\ last.op = "stop"
    /\ contextTxt.present
    /\ ~pidFile.present
    /\ ~watcher.running

-----------------------------------------------------------------------------
(* C19: a stop of the watch session and the handler call in progress *)

\* the watcher process exits in this step
WatcherExits == watcher.running /\ ~watcher'.running

\* the store commit and the export a handler call makes for the notification at
\* the head of the queue have both been made
HeadCompleted ==
    \E readOK \in BOOLEAN :
    \E branch \in {EventBranch(Head(queue), watcher.ai_ignore, fs, contextTxt, readOK)} :
       /\ readOK \/ branch = "read_error"
       /\ files' = EventStore(files, Head(queue), branch, fs, contextTxt)
       /\ contextTxt' = [present |-> TRUE, data |-> WatcherExport(files')]

\* C19 as stated: whenever the watcher process exits, by the interrupt or by
\* stop_daemon, a handler call that had begun has made its store commit and
\* its regeneration of context.txt.
C19_AsClaimed ==
    [][(WatcherExits /\ last'.branch \in KillPoints \ {"idle"}) => HeadCompleted]_vars

\* stop_daemon killed the watcher after a handler call had committed a change
\* of the table and before it regenerated context.txt: the mirror is not the
\* rendering of the table
C19_Witness ==
    /\ last.op = "kill"
    /\ last.branch = "before_export"
    /\ contextTxt # [present |-> TRUE, data |-> WatcherExport(files)]

-----------------------------------------------------------------------------
(* C20: what the compress command writes *)

\* the step is a run of compress that wrote its output
Compressed == last'.op = "compress" /\ last'.branch = "done"

\* a summary text without its header: the per-file summaries, joined
SummariesIn(text, header) == SubSeq(text, Len(header) + 1, Len(text))

-----------------------------------------------------------------------------
(* C14: the cap of 20 signatures per file *)

\* the definitions of a module, in source order
Definitions(content) ==
    SelectSeq(content, LAMBDA t : t.k \in {"def", "class", "class_head", "method",
                                            "inner_head", "inner_method"})

\* the lines of a summary that show a signature
SignatureLines(summary) ==
    SelectSeq(splitlines(summary),
              LAMBDA line : Len(line) = 2 /\ line[1] = Bullet
                               /\ line[2].k \in {"sig_def", "sig_class"})

\* C14: for a .py record whose content yields n signatures (n = 0 when the
\* content does not parse), the summary generate_file_summary returns shows
\* exactly min(n, 20) signatures, those of the first definitions in source
\* order, classes, methods and functions alike; after the header line it has
\* these lines and no other (one placeholder line when n = 0).
C14_SignatureCap ==
    (last.op = "generate_file_summary" /\ last.branch = "done"
         /\ Suffix(last.path) = <<".", "p", "y">>) =>
        \A i \in {j \in 1..Len(files) : files[j].filepath = last.path} :
        \A defs \in {IF ParseFails(splitlines(files[i].content)) THEN <<>>
                      ELSE Definitions(files[i].content)} :
        \A shown \in {SignatureLines(last.out)} :
            /\ Len(shown) = Min(Len(defs), SigCap)
            /\ \A k \in 1..Len(shown) :
                   /\ shown[k][2].s = defs[k].s
                   /\ shown[k][2].v = defs[k].v
                   /\ (shown[k][2].k = "sig_class")
                          = (defs[k].k \in {"class", "class_head", "inner_head"})
            /\ Len(splitlines(last.out)) = 1 + (IF defs = <<>> THEN 1 ELSE Len(shown))

\* the summary of a module of 25 top-level functions has been generated: it
\* shows 20 signatures, the last of them the twentieth function's
C14_Witness ==
    /\ last.op = "generate_file_summary"
    /\ last.branch = "done"
    /\ \E i \in 1..Len(files) :
           /\ files[i].filepath = last.path
           /\ files[i].content = Module("functions", 25)
    /\ Len(SignatureLines(last.out)) = SigCap
    /\ SignatureLines(last.out)[SigCap][2].v = SigCap

-----------------------------------------------------------------------------
(* C15: one summary per record, an error marker for a record that raises *)

\* C15: extract_summaries_from_db returns one entry per record of the files
\* table, in ascending path order whatever the insertion order: the error
\* marker naming the path for a record whose generate_file_summary raises, the
\* stripped summary for every other record.
C15_OneSummaryPerRecord ==
    (last.op = "extract_summaries_from_db") =>
        \A rows \in {AscendingRecords(files)} :
            /\ Len(last.out) = Len(files)
            /\ \A i \in 1..Len(rows) :
                   last.out[i] =
                       IF last.had /\ HasNul(rows[i].content)
                              /\ Suffix(rows[i].filepath) = <<".", "p", "y">>
                       THEN <<PathTok("analysis_error", rows[i].filepath, 0, 0)>>
                       ELSE strip(generate_file_summary(rows[i].filepath, rows[i].content))

\* the summaries of a table of three records inserted out of path order have
\* been extracted, the one of a.py having raised: its entry is the marker and
\* the two others are summaries
C15_Witness ==
    /\ last.op = "extract_summaries_from_db"
    /\ last.had
    /\ Len(files) = 3
    /\ ~Ascending(files)
    /\ \E i \in 1..3 : files[i].filepath = P_a_py /\ HasNul(files[i].content)
    /\ Len(last.out) = 3
    /\ \E i \in 1..3 : last.out[i] = ErrorMarker(P_a_py)
    /\ \E i \in 1..3 : last.out[i][1].k = "file_header"

-----------------------------------------------------------------------------
(* C21: the cached summary the chat client loads *)

-----------------------------------------------------------------------------
(* C22: should_index and the failures of the filesystem *)

\* C22 as stated: should_index never raises: for every path and every state of
\* the filesystem, a file that is unreadable or that another process deletes
\* during the call included, it returns a boolean, and a failure while it
\* examines the file gives false
C22_AsClaimed ==
    last.op = "should_index" => last.branch \in {"true", "false"}

\* a call of should_index that passed the test of the content ended in the
\* exception of path.stat(): the file was deleted in between
C22_Witness ==
    /\ last.op = "should_index"
    /\ last.branch = "raises"
    /\ fs[RelativeTo(last.path)].kind = "none"

-----------------------------------------------------------------------------
(* C23: the ignore rules of a watch session *)

\* C23: the ignore matcher is loaded once, when the session's handler is
\* constructed: it is the rule set of .ai-ignore at that moment, it stays the
\* same for as long as the session runs whatever becomes of .ai-ignore, and
\* every eligibility decision of the handler is the one that rule set gives
C23_RulesLoadedOnce ==
    [][/\ (last'.op = "start" /\ last'.branch = "running") =>
              watcher'.ai_ignore = LoadedRules(aiIgnore)
       /\ (watcher.running /\ watcher'.running) => watcher'.ai_ignore = watcher.ai_ignore
       /\ (EventHandled /\ Relevant(Head(queue)) /\ Head(queue).event_type # "deleted") =>
              (last'.branch \in {"updated", "read_error"}
                  <=> should_index(Head(queue).src_path, watcher.ai_ignore, fs,
                                   contextTxt))]_vars

\* the handler stored a file that the rules now in .ai-ignore exclude: the
\* file was rewritten after the session loaded its rules
C23_Witness ==
    /\ last.op = "event"
    /\ last.branch = "updated"
    /\ watcher.running
    /\ watcher.ai_ignore # LoadedRules(aiIgnore)
    /\ \E p \in UserPaths :
           /\ HasRow(files, p)
           /\ ~should_index(Abs(p), LoadedRules(aiIgnore), fs, contextTxt)
           /\ should_index(Abs(p), watcher.ai_ignore, fs, contextTxt)

-----------------------------------------------------------------------------
(* C24: the history sent within the token budget *)

\* the summed token counts of the k most recent messages
RECURSIVE SuffixTokens(_, _)
SuffixTokens(history, k) ==
    IF k = 0 THEN 0
    ELSE count_tokens(history[Len(history) - k + 1].role,
                      history[Len(history) - k + 1].response)
             + SuffixTokens(history, k - 1)

\* C24: for every history and token_size, prepare_history returns the longest
\* contiguous suffix of the history, in the original order, whose summed token
\* counts do not exceed token_size: the messages from the first one that would
\* overflow, scanning backwards, and every older one are left out
C24_LongestSuffix ==
    last.op = "prepare_history" =>
        \E k \in 0..Len(chat.history) :
            /\ last.out = [j \in 1..k |-> Sent(chat.history[Len(chat.history) - k + j])]
            /\ SuffixTokens(chat.history, k) <= chat.token_size
            /\ \A m \in (k + 1)..Len(chat.history) :
                   SuffixTokens(chat.history, m) > chat.token_size

\* prepare_history left out the older part of a history and kept the rest
C24_Witness ==
    /\ last.op = "prepare_history"
    /\ last.out # <<>>
    /\ Len(last.out) < Len(chat.history)

-----------------------------------------------------------------------------
(* C25: a failed read in the watcher *)

\* C25: when a 'created' or 'modified' notification is about an eligible file
\* and reading its content fails, the files table is left exactly as it was: a
\* record of that path is neither deleted nor overwritten, none is inserted,
\* and no other record changes
C25_ReadErrorKeepsTable ==
    [][(/\ EventHandled
        /\ Head(queue).event_type \in {"created", "modified"}
        /\ EventFilter(Head(queue)) = "process"
        /\ should_index(Head(queue).src_path, watcher.ai_ignore, fs, contextTxt)
        /\ last'.branch # "updated")
          => last'.branch = "read_error" /\ files' = files]_vars

\* the read of an eligible file failed while the table held a record of it
C25_Witness ==
    /\ last.op = "event"
    /\ last.branch = "read_error"
    /\ last.had
    /\ files # <<>>

-----------------------------------------------------------------------------
(* C26: the notifications the watcher ignores *)

\* C26: a notification about a directory, one of a kind other than created,
\* modified or deleted (such as 'moved'), and one whose path lies outside the
\* project root are ignored by the watcher: handling it changes neither the
\* files table nor context.txt
C26_IgnoredEvents ==
    [][(/\ EventHandled
        /\ \/ Head(queue).is_directory
           \/ Head(queue).event_type \notin {"created", "modified", "deleted"}
           \/ ~StartsWith(Head(queue).src_path, Cwd \o Sep))
          => /\ files' = files
             /\ contextTxt' = contextTxt
             /\ queue' = Tail(queue)]_vars

\* the handler dropped a 'moved' notification about a file of the tree while the
\* table held records
C26_Witness ==
    /\ last.op = "event"
    /\ last.branch = "skip_kind"
    /\ files # <<>>
    /\ queue = <<>>

-----------------------------------------------------------------------------
(* C27: a failed read during index() *)

\* C27: during index() a read failure on an eligible file does not abort the
\* walk: that file contributes no record in this run (its record, or the
\* absence of one, stays), and every other eligible file, visited before or
\* after it, is written to the files table and is part of the refreshed summary
\* cache
C27_ReadFailureSkipsOneFile ==
    [][IndexReturned =>
          \A failed \in {Range(last'.out)}, read \in {[p \in WalkEligible |-> ContentRead(p)]} :
             /\ failed \subseteq DOMAIN read
             /\ \A p \in (DOMAIN read) \ failed :
                    \E i \in 1..Len(files') : files'[i] = Row(p, read[p])
             /\ \A p \in failed :
                    /\ HasRow(files', p) <=> HasRow(files, p)
                    /\ \A i \in 1..Len(files') :
                           files'[i].filepath = p
                               => \E j \in 1..Len(files) : files[j] = files'[i]
             /\ summaryRow'.present
             /\ \E nulRaises \in BOOLEAN :
                    summaryRow'.text = full_summary(files', nulRaises)]_vars

\* an index() in which the read of the first file of the walk failed, and which
\* wrote the file visited after it
C27_Witness ==
    /\ last.op = "index"
    /\ last.branch = "done"
    /\ last.out = <<P_a_b_c>>
    /\ HasRow(files, P_a_py)
    /\ ~HasRow(files, P_a_b_c)

-----------------------------------------------------------------------------
(* C28: the three bodies of a Python file's summary *)

\* the lines of a summary after its header line
BodyLines(summary) == Tail(splitlines(summary))

\* C28 as stated: for a .py file generate_file_summary produces exactly one of
\* three bodies: the single syntax-error sentinel line when parsing fails, the
\* single "no definitions" placeholder line when parsing succeeds and finds no
\* class or function, and otherwise signature lines only, one per signature
\* (up to the cap); the sentinel and the placeholder never stand beside
\* signature lines
C28_AsClaimed ==
    (last.op = "generate_file_summary" /\ Suffix(last.path) = <<".", "p", "y">>) =>
        /\ last.branch = "done"
        /\ \A i \in {j \in 1..Len(files) : files[j].filepath = last.path} :
           \A fails \in {HasNul(files[i].content)
                            \/ ParseFails(splitlines(files[i].content))} :
           \A defs \in {Definitions(files[i].content)} :
           \A body \in {BodyLines(last.out)} :
              IF fails THEN body = <<(<<Bullet, SyntaxSentinel>>)>>
              ELSE IF defs = <<>> THEN body = <<(<<Bullet, NoDefinitions>>)>>
              ELSE /\ body = SignatureLines(last.out)
                   /\ Len(body) = Min(Len(defs), SigCap)

\* generate_file_summary was called on a Python file with a NUL character and
\* returned no summary: ast.parse raised ValueError
C28_Witness ==
    /\ last.op = "generate_file_summary"
    /\ last.branch = "raised"
    /\ Suffix(last.path) = <<".", "p", "y">>
    /\ \E i \in 1..Len(files) :
           files[i].filepath = last.path /\ HasNul(files[i].content)

-----------------------------------------------------------------------------
(* C29: the names in the signatures *)

\* the names of the classes that enclose the k-th definition, outermost first
Enclosing(defs, k) ==
    LET NameOfLast(kind) ==
            defs[CHOOSE j \in 1..(k - 1) :
                     /\ defs[j].k = kind
                     /\ \A m \in (j + 1)..(k - 1) : defs[m].k # kind].s
    IN CASE defs[k].k \in {"method", "inner_head"} -> <<NameOfLast("class_head")>>
         [] defs[k].k = "inner_method" ->
                <<NameOfLast("class_head"), NameOfLast("inner_head")>>
         [] OTHER -> <<>>

\* C29 as stated: signature extraction emits one line for each top-level
\* definition and for each definition nested in a class, in source order, and
\* the name in a function or method signature is prefixed with the names of
\* all its enclosing classes: a method m of class Inner nested in class Outer
\* is named Outer.Inner.m
C29_AsClaimed ==
    (last.op = "generate_file_summary" /\ last.branch = "done"
         /\ Suffix(last.path) = <<".", "p", "y">>) =>
        \A i \in {j \in 1..Len(files) : files[j].filepath = last.path
                                           /\ ~ParseFails(splitlines(files[j].content))} :
        \A defs \in {Definitions(files[i].content)} :
        \A shown \in {SignatureLines(last.out)} :
            /\ Len(shown) = Min(Len(defs), SigCap)
            /\ \A k \in 1..Len(shown) :
                   /\ shown[k][2].s = defs[k].s
                   /\ shown[k][2].v = defs[k].v
                   /\ shown[k][2].k = "sig_def" => shown[k][2].p = Enclosing(defs, k)

\* the summary of a module with class Inner nested in class Outer names the
\* method of Inner with the prefix Inner alone
C29_Witness ==
    /\ last.op = "generate_file_summary"
    /\ last.branch = "done"
    /\ \E i \in 1..Len(files) :
           /\ files[i].filepath = last.path
           /\ \E j \in 1..Len(files[i].content) :
                  files[i].content[j].k = "inner_method"
    /\ \E line \in Range(SignatureLines(last.out)) :
           line[2].k = "sig_def" /\ line[2].p = <<"Inner">>

-----------------------------------------------------------------------------
(* C30: the pid marker and the running sessions *)

\* C30 as stated: across any sequence of start_observer, clean interrupt,
\* process kill and stop_daemon steps, a second session started while one runs
\* and a stop_daemon whose kill fails included, the marker .watchdog.pid exists
\* exactly while a watch session is running, and then it holds the pid of a
\* running session
C30_AsClaimed ==
    /\ pidFile.present <=> sessions # {}
    /\ pidFile.present => IntOfText(pidFile.text) \in sessions

\* a session is running and there is no marker: a second session was started
\* beside it and then interrupted
C30_Witness ==
    /\ sessions # {}
    /\ ~pidFile.present
    /\ last.op = "stop"

-----------------------------------------------------------------------------
(* C31: the tool's own state files and the files table *)

\* C31 as stated: after any sequence of index() runs and watcher events, under
\* any ignore rules, no record of the files table has a filepath that is
\* .ai-context or lies inside it
C31_AsClaimed ==
    \A i \in 1..Len(files) : ~InMarkerDir(files[i].filepath)

\* index() has returned and the table holds a record of .ai-context/context.txt,
\* the mirror file a watcher event wrote before the run
C31_Witness ==
    /\ last.op = "index"
    /\ last.branch = "done"
    /\ HasRow(files, CONTEXT_FILE)
    /\ \A i \in 1..Len(aiIgnore.lines) : aiIgnore.lines[i].kind = "comment"

-----------------------------------------------------------------------------
(* C32: a rename inside the working tree while the watcher runs *)

\* C32 as stated: when a file that has a record is renamed within the working
\* tree while the watcher runs (the session started on a table that matched the
\* tree and no read failed), then once all resulting notifications have been
\* processed the table has no record under the old path and, if the file is
\* eligible at its new path, a record under the new path with its content
C32_AsClaimed ==
    (watcher.running /\ synced /\ changes > 0 /\ queue = <<>>)
        => \A p \in UserPaths :
               /\ fs[p].kind = "none" => ~HasRow(files, p)
               /\ should_index(Abs(p), watcher.ai_ignore, fs, contextTxt)
                     => \E i \in 1..Len(files) :
                            /\ files[i].filepath = p
                            /\ files[i].content = Decode(fs[p].data)

\* the handler has dropped the 'moved' notification of a rename, the queue is
\* empty, the old path still has its record and the new path, eligible, has none
C32_Witness ==
    /\ watcher.running /\ synced /\ changes > 0 /\ queue = <<>>
    /\ last.op = "event"
    /\ last.branch = "skip_kind"
    /\ \E old \in UserPaths, new \in UserPaths :
           /\ fs[old].kind = "none"
           /\ HasRow(files, old)
           /\ should_index(Abs(new), watcher.ai_ignore, fs, contextTxt)
           /\ ~HasRow(files, new)

-----------------------------------------------------------------------------
(* C33: the mirror file between operations *)

\* the text of context.txt, a missing file counting as an empty one
MirrorText == IF contextTxt.present THEN contextTxt.data ELSE <<>>

\* C33 as stated: whenever no operation is in progress, context.txt equals the
\* block rendering, in path order, of the current files table; in particular
\* right after index() returns
C33_AsClaimed ==
    dbExists => MirrorText = BlockRendering(AscendingRecords(files))

\* index() has returned, the table holds records, and context.txt is missing
\* or is not the rendering of the table
C33_Witness ==
    /\ last.op = "index"
    /\ last.branch = "done"
    /\ files # <<>>
    /\ MirrorText # BlockRendering(AscendingRecords(files))

-----------------------------------------------------------------------------
(* C34: index() beside a running watch session *)

\* C34 as stated: if index() runs while a watch session is active on the same
\* store, then for every interleaving of the walk, the bulk write and the
\* watcher's event handling, once both have finished every path's record holds
\* the file's latest content on disk: index() never puts back the older content
\* it read earlier, nor the record of a file the watcher has since removed
C34_AsClaimed ==
    (watcher.running /\ synced /\ queue = <<>> /\ ~indexing.active)
        => TableMatches(files, fs, watcher.ai_ignore, contextTxt)

\* index() has written what it read before the user's change, after the
\* watcher had handled the change: nothing is left to do and a record disagrees
\* with the tree
C34_Witness ==
    /\ watcher.running /\ synced /\ queue = <<>> /\ ~indexing.active
    /\ last.op = "index"
    /\ last.branch = "done"
    /\ changes > 0
    /\ \E p \in UserPaths :
           \/ fs[p].kind = "none" /\ HasRow(files, p)
           \/ \E i \in 1..Len(files) :
                  files[i].filepath = p /\ files[i].content # Decode(fs[p].data)

-----------------------------------------------------------------------------
(* C35: stop_daemon leaves no marker *)

\* C35: after stop_daemon returns the marker file .watchdog.pid does not exist,
\* in every branch: the marker was already absent (reported as not running,
\* nothing else done), the kill succeeded, or reading the pid or killing the
\* process raised an error
C35_MarkerGone ==
    last.op = "kill"
        => /\ ~pidFile.present
           /\ last.branch \in {"not_running", "killed", "kill_failed", "read_failed"}

\* stop_daemon has returned from its except block, after a kill that raised
\* while a session runs, and the marker is gone
C35_Witness ==
    /\ last.op = "kill"
    /\ last.branch = "kill_failed"
    /\ sessions # {}
    /\ ~pidFile.present

-----------------------------------------------------------------------------
(* C36: the max_tokens of a completion request *)

\* the last operation issued a completion request
RequestIssued == last.op \in {"send_message", "send_and_expect_confirmation"}

\* C36 as stated: for every history and token_size, the max_tokens value that
\* send_message and _send_and_expect_confirmation pass to the completion
\* request (token_size minus the tokens of the messages being sent minus 100)
\* is a positive integer
C36_AsClaimed ==
    RequestIssued => last.out.max_tokens > 0

\* send_message issued a request that carries messages and a max_tokens that
\* is not positive
C36_Witness ==
    /\ last.op = "send_message"
    /\ last.out.messages # <<>>
    /\ last.out.max_tokens <= 0
    /\ chat.token_size >= ResponseReserve

-----------------------------------------------------------------------------
(* C37: the user's message in the request of send_message *)

\* the user message send_message appended: the last message of the history, or
\* the one before the assistant's answer
Submitted ==
    IF last.branch = "done" THEN chat.history[Len(chat.history) - 1]
    ELSE chat.history[Len(chat.history)]

\* C37 as stated: every completion request issued by send_message contains the
\* user message just submitted as its last message, for every message length
\* and every prior history; trimming to the token budget only drops older
\* messages
C37_AsClaimed ==
    last.op = "send_message" =>
        /\ last.out.messages # <<>>
        /\ last.out.messages[Len(last.out.messages)] = Sent(Submitted)

\* send_message issued a request with no message at all: the user's message
\* alone has more tokens than token_size
C37_Witness ==
    /\ last.op = "send_message"
    /\ last.out.messages = <<>>
    /\ Submitted.role = "user"
    /\ TokensOf(Submitted) > chat.token_size

====
